---- MODULE Spec2Model ----
(***************************************************************************)
(* Model of the confirm/close rendezvous of the Qt GUI layer               *)
(* (src/gui_qt.py): LoginForm._on_confirm / _wait_for_confirm and          *)
(* GUIManager.coro_unless_closed / close / prevent_close, run on a single  *)
(* asyncio event loop.                                                     *)
(*                                                                         *)
(* Everything between two suspension points runs on the loop's only thread *)
(* and is one atomic action: a task calling into the GUI, a Qt slot, a     *)
(* task being cancelled, one step of a task that the loop resumes.  A task *)
(* whose step is scheduled (call_soon) runs at some later loop iteration;  *)
(* the model lets any scheduled step run next, which covers the order the  *)
(* loop's FIFO gives them and every position of the slots between them.    *)
(* asyncio.wait's done callbacks are folded into the step that completes   *)
(* the future: the caller's wakeup is scheduled when the first of its two  *)
(* futures completes.                                                      *)
(*                                                                         *)
(* Three further specifications follow the layers built on the rendezvous: *)
(* LoginSpec (LoginForm.ask_login and _on_logout, the login task being     *)
(* caller 1), MainSpec (the run loop of main() in src/main.py with         *)
(* _MainWindow.closeEvent and GUIManager.close_window) and IconSpec        *)
(* (QtImageCache.get_icon and its two callers).  Each specification moves  *)
(* the variables of its layer and leaves those of the others as they are   *)
(* after construction.  MainFairSpec is MainSpec with the steps of main()  *)
(* taken eventually.                                                       *)
(*                                                                         *)
(* Three specifications follow widgets of the main window: PanelSpec       *)
(* (SettingsPanel's priority list), ChannelSpec (ChannelList with          *)
(* GUIManager.display_drop / clear_drop and the load tasks of the watched  *)
(* drop's icon) and ProgressSpec (CampaignProgress.display and             *)
(* minute_almost_done against the clock).                                  *)
(***************************************************************************)
EXTENDS Integers, Sequences, FiniteSets, TLC

\* ---------------------------------------------------------------- bounds
\* Number of calls of coro_unless_closed the model follows. Each caller is one call,
\* made by a task of its own; callers are numbered in the order they call.
NCallers == 2
\* Number of Task.cancel() calls on calling tasks the model follows.
MaxCancels == 1

\* Number of confirmation requests of one ask_login call the model follows.
MaxRequests == 3
\* Number of different image urls.
NUrls == 2
\* Greatest length of settings.priority the model follows.
MaxPriority == 3
\* Number of channels the client knows.
NChannels == 2
\* Number of load tasks for the watched drop's icon that may be alive at a time.
MaxLoads == 2
\* The clock runs from 0 to MaxNow seconds.
MaxNow == 61

Callers == 1..NCallers
None == 0

\* ------------------------------------------------------ main()
\* max_restart_attempts of main(): 0 means no limit.
MaxRestartAttempts == 0

\* How client.run() can end: it returns, or raises CaptchaRequired, one of the connection
\* errors of line 299, or any other exception.
RunOutcomes == {"normal", "captcha", "connection", "other"}

\* The branches of lines 293-325.
Paths == {"normal", "captcha", "conn_max", "restart", "restart_failed", "conn_norestart",
          "other"}

\* ------------------------------------------------------ icons
\* The image urls of drops and campaigns, numbered.
Urls == 1..NUrls
\* The sizes asked for: 96x96 by add_campaign, 24x24 for the watched drop.
InvSize == 96
WatchSize == 24
\* The keys (url, w, h) of the caches; w = h for both sizes.
Keys == Urls \X {InvSize, WatchSize}
\* How the request of get_icon can end: it raises, answers with a status other than 200,
\* or answers 200 with no data, with data that is no image, or with an image.
FetchOutcomes == {"raises", "not_200", "empty", "not_image", "image"}

\* ------------------------------------------------------ login display
\* The user ids the client may log in with, and str(user_id).
UserIds == {7}
Str(u) == CASE u = 7 -> "7"

\* Bug: update() enables the logout button whatever the user id.
UpdateLogoutEnabled_always(status, user_id) == TRUE

\* LoginForm.update(status, user_id) (lines 970-973): the status label, the user label
\* and the logout button after the call.
UpdateStatus(status, user_id) == status
UpdateUserLabel(status, user_id) == IF user_id # None THEN Str(user_id) ELSE "-"
UpdateLogoutEnabled(status, user_id) == user_id # None

\* ------------------------------------------------------ texts of the login form
\* A text is a sequence of characters. "a", "1" and "_" stand for the classes of
\* [a-zA-Z0-9_], " " for whitespace, "!" for every other character. A QLineEdit holds a
\* single line, so no text contains a line break.
WordChars == {"a", "1", "_"}
Whitespace == {" "}

Rep(ch, n) == [i \in 1..n |-> ch]

\* The limits of the validation in ask_login.
MinUsernameLen == 3
MaxUsernameLen == 25
MinPasswordLen == 8
MinTokenLen == 6

\* What the user may have typed into each field when a step of the program runs.
UsernameInputs ==
    { <<>>,
      Rep("a", MinUsernameLen - 1) \o <<" ", " ">>,
      <<"a", "_", "1">>,
      <<" ">> \o Rep("a", MaxUsernameLen) \o <<" ">>,
      Rep("a", MaxUsernameLen + 1),
      <<"a", "!", "a", "a">> }
PasswordInputs ==
    { <<>>,
      Rep("a", MinPasswordLen - 1),
      <<" ">> \o Rep("!", MinPasswordLen - 2) \o <<" ">> }
TokenInputs ==
    { <<>>,
      <<" ", " ">>,
      <<" ">> \o Rep("1", MinTokenLen - 1) \o <<" ">>,
      Rep("1", MinTokenLen) }
Fields == {"login", "password", "token"}
FieldInputs(f) ==
    CASE f = "login" -> UsernameInputs
      [] f = "password" -> PasswordInputs
      [] f = "token" -> TokenInputs

\* LoginData(username, password, token)
LoginData(u, p, t) == [username |-> u, password |-> p, token |-> t]
\* ask_login has not returned / no edit since the click.
NoData == <<>>
Unedited == <<>>

\* ------------------------------------------------------ settings panel
\* Game names, and the texts the combo box of the priority list can show: no text (an
\* empty combo), a name, a name with a leading blank.
GameNames == {<<"a">>, <<"1">>}
ComboTexts == {<<>>} \cup GameNames \cup {<<" ">> \o n : n \in GameNames}
\* The lists settings.priority can hold when the panel is built: any list of names, a
\* name more than once included (the settings file is read as it is).
PriorityLists == UNION {[1..n -> GameNames] : n \in 0..MaxPriority}
NoRow == -1

\* ------------------------------------------------------ campaign progress
\* CampaignProgress.ALMOST_DONE_SECONDS.
ALMOST_DONE_SECONDS == 10
\* Seconds of a minute (line 319).
MinuteSeconds == 60
\* The drops the client can display, each known by the number of its image url.
Drops == Urls
\* The times of the clock, in whole seconds, and the deadlines display can set.
Times == 0..MaxNow
Deadlines == 1..(MaxNow + MinuteSeconds)

\* ------------------------------------------------------ channel list
\* Channel.iid of the channels.
Iids == 1..NChannels
\* QIcon(): no icon. An icon of get_icon is <<url, picture>>.
NoIcon == <<>>
\* None where an icon is expected (QIcon | None).
IconNone == <<"None">>
Icons == {NoIcon} \cup (Urls \X {"image", "blank"})
\* A row of the table: the iid in the UserRole data of its first item, the icon of the
\* first item, the grey background of the row. The texts of the columns are left out.
TableRows == [iid : Iids, icon : Icons, bg : BOOLEAN]
\* The states of a load task that has not ended: "new" (created, its first step
\* scheduled), "fetching" (suspended in the request of get_icon), "cancelling" (cancel()
\* was called on it, the step that throws CancelledError into it is scheduled).
LoadStates == {"new", "fetching", "cancelling"}
\* What _drop_icon_task holds: None ("none"), the task created last, which has not ended
\* ("live") or has ("ended").
TaskRefs == {"none", "live", "ended"}

VARIABLES
    close_requested,   \* GUIManager._close_requested: the Event's flag (is_set())
    confirm_future,    \* LoginForm._confirm_future: None, or the caller whose future is in the slot
    confirm_enabled,   \* LoginForm._confirm.isEnabled()
    raised,            \* exception that escaped the last Qt slot call ("none" when it returned)
    kind,              \* per caller: "none", "confirm" (via _wait_for_confirm) or "plain"
    pc,                \* per caller: "idle", "waiting" (suspended in asyncio.wait), "returned", "exit", "cancelled"
    result,            \* per caller: what coro_unless_closed returned: "none", "value", "closewait"
    fut,               \* per caller: tasks[0], the awaited future: "none", "pending", "result", "cancelled"
    cw,                \* per caller: tasks[1], the task running self._close_requested.wait()
    waiter,            \* per caller: asyncio.wait's internal future, "none" outside the call, else "pending", "done", "cancelled"
    must_cancel,       \* per caller: cancel() was called on the calling task while it was suspended
    cancels,           \* number of Task.cancel() calls made on calling tasks
    \* ---- LoginForm (login layer)
    login_text,        \* LoginForm._login.text(), a sequence of characters
    password_text,     \* LoginForm._password.text()
    token_text,        \* LoginForm._token.text()
    login_data,        \* what ask_login returned: NoData until it returns, then a LoginData
    requests,          \* number of confirmation requests ask_login has issued
    rejects,           \* number of attempts ask_login has rejected
    form_at_confirm,   \* the form as it stood at the click that resolved the pending request,
                       \* kept only when a field was edited between that click and the
                       \* resumption of ask_login (Unedited otherwise)
    \* ---- main() of src/main.py, _MainWindow, GUIManager.close_window
    mpc,               \* where main() is: "start", "run" (awaiting client.run()), "shutdown"
                       \* (awaiting client.shutdown()), "wait_closed" (suspended in
                       \* wait_until_closed), "wait_woken" (its wakeup scheduled), "exited"
                       \* (sys.exit), "restarted" (left the loop by break)
    path,              \* how client.run() ended and which branch handled it ("none" before)
    exit_status,       \* exit_status of main()
    restart_count,     \* restart_count of main()
    allow_window_close,\* GUIManager._allow_window_close
    window_open,       \* the main window exists (no close event was accepted yet)
    prevents,          \* number of client.prevent_close() calls main() has made
    shutdown_done,     \* client.shutdown() has completed
    close_observed,    \* wait_until_closed has returned
    closed_since,      \* GUIManager.close() was called since client.run() ended
    auto_restart,      \* settings.auto_restart_on_error
    icon_state,        \* TrayIcon._icon_state
    saves,             \* number of client.save(force=True) calls main() has made
    \* ---- the login display (LoginForm.update) and the client's login
    login_status,      \* LoginForm._status_label: "logged_out", "required" or "logged_in"
    user_label,        \* LoginForm._user_label.text(): "-" or str(user_id)
    logout_enabled,    \* LoginForm._logout.isEnabled()
    client_logged_in,  \* the client holds a login (Twitch.logout() ends it)
    \* ---- QtImageCache and the two callers of get_icon
    mem,               \* QtImageCache._mem: per key the icon held ("none" when absent)
    disk,              \* the files of the cache directory: per key the picture saved
    inv_pc,            \* InventoryOverview.add_campaign: "idle" or "fetching" (in get_icon)
    inv_url,           \* the url add_campaign asked for last
    inv_fetch,         \* how the request of that call ended ("none" when it made none)
    inv_got,           \* what get_icon handed to add_campaign last ("none" before)
    item_icon,         \* per url the icon of the drop's list item ("unset" without one)
    watch_pc,          \* _load_and_set_watching_drop_icon: "idle" or "fetching"
    watch_url,         \* the url it asked for last
    watch_fetch,       \* how the request of that call ended
    watch_got,         \* what get_icon handed to it last
    watch_icon,        \* the icon of the watched channel's row
    \* ---- the widgets of the main window and what they show
    settings_panel,    \* SettingsPanel: built (after __init__), priority (the list
                       \* settings.priority), priority_list (the texts of the rows of the
                       \* list widget), current_row (its currentRow(), -1 for none),
                       \* altered (settings.alter() was called)
    channels,          \* ChannelList: table (the rows of the QTableWidget), rows (_rows:
                       \* per iid the row number, NoRow when absent), watching_iid
    drop_icon,         \* GUIManager: last_url (_last_drop_icon_url), task
                       \* (_drop_icon_task, a TaskRefs), tasks (the load tasks that have
                       \* not ended, in the order of their creation: url and state)
    progress,          \* CampaignProgress: drop (_drop), next_minute_deadline,
                       \* last_deadline_fired (None when not set)
    now,               \* datetime.now(timezone.utc), in seconds
    fired              \* history of minute_almost_done: ever (the deadlines it returned
                       \* True for), again (it returned True for a deadline of ever)

formvars == <<confirm_future, confirm_enabled, raised>>
callvars == <<kind, pc, result, fut, cw, waiter, must_cancel, cancels>>
loginvars == <<login_text, password_text, token_text, login_data, requests, rejects,
               form_at_confirm>>
\* The variables of the layers above the rendezvous.
mainvars == <<mpc, path, exit_status, restart_count, allow_window_close, window_open,
              prevents, shutdown_done, close_observed, closed_since, auto_restart,
              icon_state, saves>>
displayvars == <<login_status, user_label, logout_enabled, client_logged_in>>
iconvars == <<mem, disk, inv_pc, inv_url, inv_fetch, inv_got, item_icon,
              watch_pc, watch_url, watch_fetch, watch_got, watch_icon>>
channelvars == <<channels, drop_icon>>
progressvars == <<progress, now, fired>>
guivars == <<settings_panel, channelvars, progressvars>>
extvars == <<loginvars, mainvars, displayvars, iconvars, guivars>>
\* The rendezvous variables, and all of them.
corevars == <<close_requested, confirm_future, confirm_enabled, raised,
              kind, pc, result, fut, cw, waiter, must_cancel, cancels>>
vars == <<corevars, extvars>>

\* The task running Event.wait(): "new" (created, first step scheduled), "blocked" (in the
\* Event's waiters, its future pending), "woken" (set() resolved its future, its next step
\* is scheduled), "cancelling" (cancel() was called on it, the step that throws
\* CancelledError into it is scheduled), "done" (returned True), "cancelled".
CwStates == {"none", "new", "blocked", "woken", "cancelling", "done", "cancelled"}

TypeOK ==
    /\ close_requested \in BOOLEAN
    /\ confirm_future \in Callers \cup {None}
    /\ confirm_enabled \in BOOLEAN
    /\ raised \in {"none", "InvalidStateError", "AttributeError", "ReloadRequest"}
    /\ kind \in [Callers -> {"none", "confirm", "plain"}]
    /\ pc \in [Callers -> {"idle", "waiting", "returned", "exit", "cancelled"}]
    /\ result \in [Callers -> {"none", "value", "closewait"}]
    /\ fut \in [Callers -> {"none", "pending", "result", "cancelled"}]
    /\ cw \in [Callers -> CwStates]
    /\ waiter \in [Callers -> {"none", "pending", "done", "cancelled"}]
    /\ must_cancel \in [Callers -> BOOLEAN]
    /\ cancels \in 0..MaxCancels
    /\ login_text \in UsernameInputs
    /\ password_text \in PasswordInputs
    /\ token_text \in TokenInputs
    /\ login_data \in {NoData} \cup
          {<<LoginData(u, p, t)>> : u \in {<<"a", "_", "1">>, Rep("a", MaxUsernameLen)},
                                    p \in PasswordInputs,
                                    t \in {<<>>, Rep("1", MinTokenLen)}}
    /\ requests \in 0..MaxRequests
    /\ rejects \in 0..MaxRequests
    /\ form_at_confirm \in {Unedited} \cup
          {<<LoginData(u, p, t)>> : u \in UsernameInputs, p \in PasswordInputs,
                                    t \in TokenInputs}
    /\ mpc \in {"start", "run", "shutdown", "wait_closed", "wait_woken", "exited", "restarted"}
    /\ path \in Paths \cup {"none"}
    /\ exit_status \in {0, 1}
    /\ restart_count \in 0..1
    /\ allow_window_close \in BOOLEAN
    /\ window_open \in BOOLEAN
    /\ prevents \in 0..2
    /\ shutdown_done \in BOOLEAN
    /\ close_observed \in BOOLEAN
    /\ closed_since \in BOOLEAN
    /\ auto_restart \in BOOLEAN
    /\ icon_state \in {"pickaxe", "error"}
    /\ saves \in 0..2
    /\ login_status \in {"logged_out", "required", "logged_in"}
    /\ user_label \in {"-"} \cup {Str(u) : u \in UserIds}
    /\ logout_enabled \in BOOLEAN
    /\ client_logged_in \in BOOLEAN
    /\ mem \in [Keys -> {"none", "image", "blank"}]
    /\ disk \in [Keys -> {"none", "image", "blank"}]
    /\ inv_pc \in {"idle", "fetching"}
    /\ inv_url \in Urls
    /\ inv_fetch \in FetchOutcomes \cup {"none"}
    /\ inv_got \in {"none", "image", "blank", "raised"}
    /\ item_icon \in [Urls -> {"unset", "image", "blank"}]
    /\ watch_pc \in {"idle", "fetching"}
    /\ watch_url \in Urls
    /\ watch_fetch \in FetchOutcomes \cup {"none"}
    /\ watch_got \in {"none", "image", "blank", "raised"}
    /\ watch_icon \in {"unset", "null", "image", "blank"}
    /\ settings_panel \in [built : BOOLEAN, priority : PriorityLists,
                           priority_list : PriorityLists,
                           current_row : NoRow..(MaxPriority - 1), altered : BOOLEAN]
    /\ channels \in [table : UNION {[1..n -> TableRows] : n \in 0..NChannels},
                     rows : [Iids -> NoRow..(NChannels - 1)],
                     watching_iid : Iids \cup {None}]
    /\ drop_icon \in [last_url : Urls \cup {None},
                      task : TaskRefs,
                      tasks : UNION {[1..n -> [url : Urls, st : LoadStates]] : n \in 0..MaxLoads}]
    /\ progress \in [drop : Drops \cup {None},
                     next_minute_deadline : Deadlines \cup {None},
                     last_deadline_fired : Deadlines \cup {None}]
    /\ now \in Times
    /\ fired \in [ever : SUBSET Deadlines, again : BOOLEAN]

\* State after GUIManager.__init__ and LoginForm.__init__: the Event is clear,
\* the confirm button disabled, no request in the slot, no call in progress, the
\* fields of the login form empty, the window open, main() about to call client.run().
Init ==
    /\ close_requested = FALSE
    /\ confirm_future = None
    /\ confirm_enabled = FALSE
    /\ raised = "none"
    /\ kind = [c \in Callers |-> "none"]
    /\ pc = [c \in Callers |-> "idle"]
    /\ result = [c \in Callers |-> "none"]
    /\ fut = [c \in Callers |-> "none"]
    /\ cw = [c \in Callers |-> "none"]
    /\ waiter = [c \in Callers |-> "none"]
    /\ must_cancel = [c \in Callers |-> FALSE]
    /\ cancels = 0
    /\ login_text = <<>>
    /\ password_text = <<>>
    /\ token_text = <<>>
    /\ login_data = NoData
    /\ requests = 0
    /\ rejects = 0
    /\ form_at_confirm = Unedited
    /\ mpc = "start"
    /\ path = "none"
    /\ exit_status = 0
    /\ restart_count = 0
    /\ allow_window_close = FALSE
    /\ window_open = TRUE
    /\ prevents = 0
    /\ shutdown_done = FALSE
    /\ close_observed = FALSE
    /\ closed_since = FALSE
    /\ auto_restart = FALSE
    /\ icon_state = "pickaxe"
    /\ saves = 0
    /\ login_status = UpdateStatus("logged_out", None)
    /\ user_label = UpdateUserLabel("logged_out", None)
    /\ logout_enabled = UpdateLogoutEnabled("logged_out", None)
    /\ client_logged_in = FALSE
    /\ mem = [k \in Keys |-> "none"]
    /\ disk = [k \in Keys |-> "none"]
    /\ inv_pc = "idle"
    /\ inv_url = 1
    /\ inv_fetch = "none"
    /\ inv_got = "none"
    /\ item_icon = [u \in Urls |-> "unset"]
    /\ watch_pc = "idle"
    /\ watch_url = 1
    /\ watch_fetch = "none"
    /\ watch_got = "none"
    /\ watch_icon = "unset"
    /\ settings_panel = [built |-> FALSE, priority |-> <<>>, priority_list |-> <<>>,
                         current_row |-> NoRow, altered |-> FALSE]
    /\ channels = [table |-> <<>>, rows |-> [i \in Iids |-> NoRow], watching_iid |-> None]
    /\ drop_icon = [last_url |-> None, task |-> "none", tasks |-> <<>>]
    /\ progress = [drop |-> None, next_minute_deadline |-> None, last_deadline_fired |-> None]
    /\ now = 0
    /\ fired = [ever |-> {}, again |-> FALSE]

\* ------------------------------------------------------------- helpers
\* Bug: return_when=ALL_COMPLETED: the waiter is resolved by the second completion only.
Completed_all(c, w) ==
    IF pc[c] = "waiting" /\ w[c] = "pending" /\ (fut[c] = "result" \/ cw[c] = "done")
    THEN [w EXCEPT ![c] = "done"] ELSE w

\* asyncio.wait(return_when=FIRST_COMPLETED): its _on_completion callback is registered on
\* both futures of caller c while c is suspended; the first future to complete resolves
\* the waiter, which schedules the caller's wakeup. w is the waiter map before.
Completed(c, w) ==
    IF pc[c] = "waiting" /\ w[c] = "pending" THEN [w EXCEPT ![c] = "done"] ELSE w

\* ------------------------------------------------- GUIManager (close signal)
\* Bug: close() wakes a single waiter (notify-one).
EventSetWoken_one(closed, cwf) ==
    IF closed THEN {}
    ELSE {c \in Callers : cwf[c] = "blocked" /\ \A d \in Callers : cwf[d] = "blocked" => c <= d}

\* Bug: close() only flips the flag and wakes nobody.
EventSetWoken_none(closed, cwf) == {}

\* asyncio.Event.set() as used by close(): when the flag was clear, every waiter whose
\* future is still pending gets its result; a waiter already woken or cancelled is skipped.
EventSetWoken(closed, cwf) == IF closed THEN {} ELSE {c \in Callers : cwf[c] = "blocked"}

\* Bug: close() toggles the flag.
CloseValue_toggle(old) == ~old

\* The flag after self._close_requested.set()
CloseValue(old) == TRUE

\* GUIManager.close(): set the Event (self._twitch.close() changes only the client, whose
\* state is not part of the GUI layer). A close() while the flag is set changes nothing.
close ==
    /\ close_requested' = CloseValue(close_requested)
    /\ cw' = [c \in Callers |->
                IF c \in EventSetWoken(close_requested, cw) THEN "woken" ELSE cw[c]]
    /\ UNCHANGED <<formvars, kind, pc, result, fut, waiter, must_cancel, cancels, extvars>>

\* GUIManager.prevent_close(): self._close_requested.clear(). Tasks already woken stay woken.
prevent_close ==
    /\ close_requested' = FALSE
    /\ UNCHANGED <<formvars, callvars, extvars>>

\* ------------------------------------------------- GUIManager.coro_unless_closed
\* Lines 1373-1374 up to the suspension: tasks[0] is the awaited future itself
\* (ensure_future of a Future), tasks[1] a new task for Event.wait() whose first step is
\* scheduled; asyncio.wait suspends the caller on its waiter.
Enter(c, k) ==
    /\ pc[c] = "idle"
    /\ \A d \in Callers : d < c => pc[d] # "idle"
    /\ kind' = [kind EXCEPT ![c] = k]
    /\ fut' = [fut EXCEPT ![c] = "pending"]
    /\ cw' = [cw EXCEPT ![c] = "new"]
    /\ waiter' = [waiter EXCEPT ![c] = "pending"]
    /\ pc' = [pc EXCEPT ![c] = "waiting"]
    /\ UNCHANGED <<close_requested, raised, result, must_cancel, cancels, extvars>>

\* A task awaits coro_unless_closed(f) for a future f of its own (not the login form's).
coro_unless_closed ==
    \E c \in Callers :
        /\ Enter(c, "plain")
        /\ UNCHANGED <<confirm_future, confirm_enabled>>

\* Without the one-task discipline: a request may be issued while another is pending.
LoginTaskFree_any == TRUE

\* The callers of ask_login / ask_enter_code are the client's login code, which is not part
\* of the GUI layer: one task that issues its confirmation requests one after another.
LoginTaskFree == \A d \in Callers : kind[d] = "confirm" => pc[d] # "waiting"

\* The slot after line 930: the new future, whatever the slot held.
SlotAfterRequest(c, slot) == c

\* LoginForm._wait_for_confirm up to the suspension (lines 930-933): a new future goes
\* into the slot and the confirm button is enabled.
wait_for_confirm ==
    \E c \in Callers :
        /\ LoginTaskFree
        /\ Enter(c, "confirm")
        /\ confirm_future' = SlotAfterRequest(c, confirm_future)
        /\ confirm_enabled' = TRUE

\* The awaited future of a suspended plain caller gets its result (the awaited value
\* completes).
Complete ==
    \E c \in Callers :
        /\ kind[c] = "plain"
        /\ pc[c] = "waiting"
        /\ fut[c] = "pending"
        /\ fut' = [fut EXCEPT ![c] = "result"]
        /\ waiter' = Completed(c, waiter)
        /\ UNCHANGED <<close_requested, formvars, kind, pc, result, cw, must_cancel, cancels,
                       extvars>>

\* ------------------------------------------------- LoginForm._on_confirm
\* Bug: _on_confirm without the done() test.
CanResolve_noDoneTest(slot, f) == slot # None

\* The guard of _on_confirm: a future is in the slot and it is not done.
CanResolve(slot, f) == slot # None /\ f[slot] = "pending"

\* LoginForm._on_confirm (the confirm button's clicked slot). fut.set_result on a done
\* future raises InvalidStateError, and on None AttributeError; the guard excludes both.
on_confirm ==
    /\ UNCHANGED extvars
    /\ IF CanResolve(confirm_future, fut)
       THEN IF confirm_future = None
            THEN /\ raised' = "AttributeError"
                 /\ UNCHANGED <<close_requested, confirm_future, confirm_enabled, callvars>>
            ELSE IF fut[confirm_future] # "pending"
            THEN /\ raised' = "InvalidStateError"
                 /\ UNCHANGED <<close_requested, confirm_future, confirm_enabled, callvars>>
            ELSE /\ fut' = [fut EXCEPT ![confirm_future] = "result"]
                 /\ waiter' = Completed(confirm_future, waiter)
                 /\ raised' = "none"
                 /\ UNCHANGED <<close_requested, confirm_future, confirm_enabled, kind, pc,
                                result, cw, must_cancel, cancels>>
       ELSE /\ raised' = "none"
            /\ UNCHANGED <<close_requested, confirm_future, confirm_enabled, callvars>>

\* ------------------------------------------------- task cancellation
\* Task.cancel() on a task suspended in coro_unless_closed: a pending waiter is cancelled,
\* which schedules the task's wakeup; if the wakeup is already scheduled the task is only
\* marked, and CancelledError is thrown into it when it runs.
CancelTask ==
    \E c \in Callers :
        /\ cancels < MaxCancels
        /\ pc[c] = "waiting"
        /\ ~must_cancel[c]
        /\ cancels' = cancels + 1
        /\ must_cancel' = [must_cancel EXCEPT ![c] = TRUE]
        /\ waiter' = [waiter EXCEPT ![c] = IF @ = "pending" THEN "cancelled" ELSE @]
        /\ UNCHANGED <<close_requested, formvars, kind, pc, result, fut, cw, extvars>>

\* ------------------------------------------------- loop steps
\* The flag as Event.wait() reads it in its first step.
WaitSeesSet(closed) == closed

\* A scheduled step of the task running self._close_requested.wait() (asyncio.Event.wait):
\*   first step: returns True at once when the flag is set, else joins the waiters;
\*   woken by set(): leaves the waiters and returns True (the flag is not read again);
\*   cancelled: CancelledError is thrown into it, it leaves the waiters.
CloseWaitTask(c) ==
    /\ cw[c] \in {"new", "woken", "cancelling"}
    /\ CASE cw[c] = "new" /\ WaitSeesSet(close_requested) ->
                /\ cw' = [cw EXCEPT ![c] = "done"]
                /\ waiter' = Completed(c, waiter)
         [] cw[c] = "new" /\ ~WaitSeesSet(close_requested) ->
                /\ cw' = [cw EXCEPT ![c] = "blocked"]
                /\ UNCHANGED waiter
         [] cw[c] = "woken" ->
                /\ cw' = [cw EXCEPT ![c] = "done"]
                /\ waiter' = Completed(c, waiter)
         [] cw[c] = "cancelling" ->
                /\ cw' = [cw EXCEPT ![c] = "cancelled"]
                /\ waiter' = Completed(c, waiter)
    /\ UNCHANGED <<close_requested, formvars, kind, pc, result, fut, must_cancel, cancels>>

\* The same step as an action of the whole program: nothing else changes.
CloseWaitStep(c) == CloseWaitTask(c) /\ UNCHANGED extvars

\* Bug: ExitRequest only when the awaited future did not complete ("first one wins").
ExitRequested_unlessValue(closed, futDone) == closed /\ ~futDone

\* Bug: ExitRequest also when the flag is clear and the close-wait task is the one in done.
ExitRequested_orNoValue(closed, futDone) == closed \/ ~futDone

\* Line 1377: the test that decides between ExitRequest and the return.
ExitRequested(closed, futDone) == closed

\* Bug: the cleanup placed after the await instead of in a finally: it runs on return only.
FinallyRuns_onReturnOnly(outcome) == outcome = "returned"

\* Whether the finally of _wait_for_confirm (lines 934-936) runs on this way out.
FinallyRuns(outcome) == TRUE

\* Lines 1375-1376: every task of the set pending is cancelled: the awaited future at
\* once, the close-wait task by a scheduled step. state is the task's state before.
CancelPendingFut(state) == IF state = "pending" THEN "cancelled" ELSE state
CancelPendingCw(state) == IF state \in {"new", "blocked", "woken"} THEN "cancelling" ELSE state

\* The ways control can leave coro_unless_closed when caller c resumes, as <<pc, result>>:
\* CancelledError when the task was cancelled; else ExitRequest when the flag is set at
\* that moment; else the result of next(iter(done)), any member of the set done.
Outcomes(c) ==
    IF must_cancel[c] THEN {<<"cancelled", "none">>}
    ELSE IF ExitRequested(close_requested, fut[c] = "result") THEN {<<"exit", "none">>}
    ELSE {<<"returned", "value">> : y \in {fut[c]} \cap {"result"}}
         \cup {<<"returned", "closewait">> : y \in {cw[c]} \cap {"done"}}

\* The calling task resumes from asyncio.wait and runs to the end of coro_unless_closed
\* (lines 1375-1381) and, for a confirm caller, through the finally of _wait_for_confirm.
\* A cancelled caller skips lines 1375-1381: nothing cancels its two futures.
Resume(c) ==
    /\ pc[c] = "waiting"
    /\ waiter[c] \in {"done", "cancelled"}
    /\ \E out \in Outcomes(c) :
          /\ pc' = [pc EXCEPT ![c] = out[1]]
          /\ result' = [result EXCEPT ![c] = out[2]]
          /\ waiter' = [waiter EXCEPT ![c] = "none"]
          /\ must_cancel' = [must_cancel EXCEPT ![c] = FALSE]
          /\ IF must_cancel[c]
             THEN UNCHANGED <<fut, cw>>
             ELSE /\ fut' = [fut EXCEPT ![c] = CancelPendingFut(@)]
                  /\ cw' = [cw EXCEPT ![c] = CancelPendingCw(@)]
          /\ IF kind[c] = "confirm" /\ FinallyRuns(out[1])
             THEN /\ confirm_enabled' = FALSE
                  /\ confirm_future' = None
             ELSE UNCHANGED <<confirm_enabled, confirm_future>>
    /\ UNCHANGED <<close_requested, raised, kind, cancels>>

\* The same step as an action of the whole program: nothing else changes.
Wakeup(c) == Resume(c) /\ UNCHANGED extvars

\* One step of the event loop: a scheduled task step runs. Stated over the rendezvous
\* variables, the only ones such a step changes.
RunLoop == \E c \in Callers : CloseWaitTask(c) \/ Resume(c)

Next ==
    \/ close
    \/ prevent_close
    \/ coro_unless_closed
    \/ wait_for_confirm
    \/ Complete
    \/ on_confirm
    \/ CancelTask
    \/ \E c \in Callers : CloseWaitStep(c)
    \/ \E c \in Callers : Wakeup(c)

Spec == Init /\ [][Next]_vars

\* The event loop keeps running scheduled steps while there are any. Every call takes
\* finitely many steps, so no scheduled step is passed over for ever.
FairSpec == Spec /\ WF_corevars(RunLoop)

\* ================================================================ login layer
\* str.strip(): leading and trailing whitespace removed.
RECURSIVE LStrip(_)
LStrip(s) == IF s # <<>> /\ Head(s) \in Whitespace THEN LStrip(Tail(s)) ELSE s
RECURSIVE RStrip(_)
RStrip(s) == IF s # <<>> /\ s[Len(s)] \in Whitespace THEN RStrip(SubSeq(s, 1, Len(s) - 1)) ELSE s
Strip(s) == RStrip(LStrip(s))

\* re.match(r"^[a-zA-Z0-9_]+$", u) on a text without line breaks.
MatchesWord(u) == u # <<>> /\ \A i \in 1..Len(u) : u[i] \in WordChars

\* Bug: the length tested but not the characters.
UsernameOK_lengthOnly(u) == MinUsernameLen <= Len(u) /\ Len(u) <= MaxUsernameLen

\* Line 950, negated: the username passes.
UsernameOK(u) == MinUsernameLen <= Len(u) /\ Len(u) <= MaxUsernameLen /\ MatchesWord(u)

\* Line 953, negated: the password passes.
PasswordOK(pw) == ~(Len(pw) < MinPasswordLen)

\* Line 956, negated: the token passes (an empty token is falsy).
TokenOK(t) == ~(t # <<>> /\ Len(t) < MinTokenLen)

\* Bug: the form read without strip().
ReadForm_noStrip(l, pw, t) == LoginData(l, pw, t)

\* Lines 944-948: the LoginData built from the form; username and token are stripped.
ReadForm(l, pw, t) == LoginData(Strip(l), pw, Strip(t))

\* Lines 950-959: the first check that fails, as the field it names, or "ok".
Validate(d) ==
    IF ~UsernameOK(d.username) THEN "login"
    ELSE IF ~PasswordOK(d.password) THEN "password"
    ELSE IF ~TokenOK(d.token) THEN "token"
    ELSE "ok"

\* Bug: clear_all computed from the login flag alone.
ClearedFields_allUnlessLogin(login, password, token) ==
    LET clear_all == ~login
    IN  {f \in Fields : \/ f = "login" /\ (login \/ clear_all)
                        \/ f = "password" /\ (password \/ clear_all)
                        \/ f = "token" /\ (token \/ clear_all)}

\* Bug: clear() ignores its flags and clears the whole form.
ClearedFields_all(login, password, token) == Fields

\* LoginForm.clear(login, password, token): the fields it clears.
ClearedFields(login, password, token) ==
    LET clear_all == ~login /\ ~password /\ ~token
    IN  {f \in Fields : \/ f = "login" /\ (login \/ clear_all)
                        \/ f = "password" /\ (password \/ clear_all)
                        \/ f = "token" /\ (token \/ clear_all)}

\* The text of a field after clear() cleared the fields of the set cleared.
AfterClear(f, text, cleared) == IF f \in cleared THEN <<>> ELSE text

\* The clear() call of ask_login for a failed check (lines 951, 954, 957).
ClearFor(verdict) == ClearedFields(verdict = "login", verdict = "password", verdict = "token")

\* The login task of the client is caller 1: ask_login's requests are its calls of
\* _wait_for_confirm, one after another.
LoginTask == 1

\* A new request of the login task (lines 930-933 and 1373-1374): a new future in the
\* slot, the button enabled, a new close-wait task, the task suspended. The futures of
\* the request before are dropped: its finally has released the slot, and asyncio.wait
\* removed its callbacks from them when it returned.
NewRequest ==
    /\ confirm_future' = SlotAfterRequest(LoginTask, confirm_future)
    /\ confirm_enabled' = TRUE
    /\ kind' = [kind EXCEPT ![LoginTask] = "confirm"]
    /\ fut' = [fut EXCEPT ![LoginTask] = "pending"]
    /\ cw' = [cw EXCEPT ![LoginTask] = "new"]
    /\ waiter' = [waiter EXCEPT ![LoginTask] = "pending"]
    /\ pc' = [pc EXCEPT ![LoginTask] = "waiting"]
    /\ result' = [result EXCEPT ![LoginTask] = "none"]
    /\ requests' = requests + 1
    /\ form_at_confirm' = Unedited

\* LoginForm.ask_login up to its first suspension (lines 939-943).
ask_login ==
    /\ pc[LoginTask] = "idle"
    /\ requests < MaxRequests
    /\ NewRequest
    /\ login_status' = UpdateStatus("required", None)
    /\ user_label' = UpdateUserLabel("required", None)
    /\ logout_enabled' = UpdateLogoutEnabled("required", None)
    /\ UNCHANGED <<close_requested, raised, must_cancel, cancels, client_logged_in,
                   login_text, password_text, token_text, login_data, rejects, mainvars,
                   iconvars, guivars>>

\* The user edits a field of the login form (Qt delivers the key presses between two
\* steps of the loop, at any time: the fields are never disabled).
EditField ==
    \E f \in Fields :
        \E t \in FieldInputs(f) :
            /\ login_text' = IF f = "login" THEN t ELSE login_text
            /\ password_text' = IF f = "password" THEN t ELSE password_text
            /\ token_text' = IF f = "token" THEN t ELSE token_text
            /\ <<login_text', password_text', token_text'>> # <<login_text, password_text, token_text>>
            /\ form_at_confirm' =
                  IF /\ pc[LoginTask] = "waiting"
                     /\ fut[LoginTask] = "result"
                     /\ form_at_confirm = Unedited
                  THEN <<LoginData(login_text, password_text, token_text)>>
                  ELSE form_at_confirm
            /\ UNCHANGED <<close_requested, formvars, callvars, login_data, requests, rejects,
                           mainvars, displayvars, iconvars, guivars>>

\* ask_login resumes from _wait_for_confirm (lines 1375-1381, 934-936, 944-959) and runs
\* to its next suspension or its end:
\*   ExitRequest when the flag is set: it propagates out of ask_login;
\*   else the form is read and validated: accepted, the LoginData is returned; rejected,
\*   the field of the failed check is cleared and a new request issued.
ask_login_resume ==
    /\ pc[LoginTask] = "waiting"
    /\ kind[LoginTask] = "confirm"
    /\ requests >= 1
    /\ waiter[LoginTask] = "done"
    /\ \E out \in Outcomes(LoginTask) :
          LET d == ReadForm(login_text, password_text, token_text)
              verdict == Validate(d)
          IN  IF out[1] = "exit" \/ verdict = "ok"
              THEN /\ pc' = [pc EXCEPT ![LoginTask] = out[1]]
                   /\ result' = [result EXCEPT ![LoginTask] = out[2]]
                   /\ waiter' = [waiter EXCEPT ![LoginTask] = "none"]
                   /\ fut' = [fut EXCEPT ![LoginTask] = CancelPendingFut(@)]
                   /\ cw' = [cw EXCEPT ![LoginTask] = CancelPendingCw(@)]
                   /\ confirm_enabled' = FALSE
                   /\ confirm_future' = None
                   /\ login_data' = IF out[1] = "exit" THEN NoData ELSE <<d>>
                   /\ form_at_confirm' = Unedited
                   /\ UNCHANGED <<kind, login_text, password_text, token_text,
                                  requests, rejects>>
              ELSE /\ requests < MaxRequests
                   /\ login_text' = AfterClear("login", login_text, ClearFor(verdict))
                   /\ password_text' = AfterClear("password", password_text, ClearFor(verdict))
                   /\ token_text' = AfterClear("token", token_text, ClearFor(verdict))
                   /\ rejects' = rejects + 1
                   /\ NewRequest
                   /\ UNCHANGED login_data
    /\ UNCHANGED <<close_requested, raised, must_cancel, cancels, mainvars, displayvars,
                   iconvars, guivars>>

LoginNext ==
    \/ ask_login
    \/ EditField
    \/ on_confirm
    \/ ask_login_resume
    \/ close
    \/ prevent_close
    \/ \E c \in Callers : CloseWaitStep(c)

LoginSpec == Init /\ [][LoginNext]_vars

\* ================================================================ claims
\* Control leaves coro_unless_closed (and _wait_for_confirm) for caller c in this step.
Leaves(c) == pc[c] = "waiting" /\ pc'[c] # "waiting"

\* C1: on every way out of _wait_for_confirm (return, ExitRequest, cancellation of the
\* calling task) the confirm button is disabled and the slot _confirm_future is None
\* when control leaves.
C1_ReleasedOnExit ==
    [][\A c \in Callers :
          (kind[c] = "confirm" /\ Leaves(c)) =>
              (~confirm_enabled' /\ confirm_future' = None)]_vars

\* C1 witness: one request left by cancellation and a later one by ExitRequest, form released.
C1_Witness ==
    /\ kind[1] = "confirm" /\ pc[1] = "cancelled"
    /\ kind[2] = "confirm" /\ pc[2] = "exit"
    /\ ~confirm_enabled /\ confirm_future = None

\* C2 (as stated): when the flag is set as the caller resumes the call raises ExitRequest
\* and returns nothing, and an _on_confirm that arrives after the close() that woke the
\* request's close-wait changes nothing.
C2_Original ==
    [][/\ \A c \in Callers :
             (Leaves(c) /\ close_requested /\ ~must_cancel[c]) =>
                 (pc'[c] = "exit" /\ result'[c] = "none")
       /\ (/\ on_confirm
           /\ close_requested
           /\ confirm_future # None
           /\ cw[confirm_future] = "woken") => UNCHANGED vars]_vars

\* C2 (amended): when the flag is set as a caller that was not cancelled resumes, the call
\* raises ExitRequest and returns nothing, also when _on_confirm resolved its request; an
\* _on_confirm changes a future only while its caller is still suspended, so one that
\* arrives after the caller has left changes nothing.
C2_ShutdownWins ==
    [][/\ \A c \in Callers :
             (Leaves(c) /\ close_requested /\ ~must_cancel[c]) =>
                 (pc'[c] = "exit" /\ result'[c] = "none")
       /\ \A c \in Callers :
             (kind[c] = "confirm" /\ fut'[c] # fut[c] /\ fut'[c] = "result") =>
                 (pc[c] = "waiting" /\ confirm_future = c)]_vars

\* C2 witness: a request that _on_confirm resolved and whose caller got ExitRequest.
C2_Witness ==
    \E c \in Callers : kind[c] = "confirm" /\ pc[c] = "exit" /\ fut[c] = "result"

\* C3: once the flag is set, every caller suspended in coro_unless_closed (suspended
\* before the close or calling while it is set) leaves with ExitRequest by loop steps
\* alone, unless the flag is cleared again or its task is cancelled.
C3_CloseUnblocksAll ==
    \A c \in Callers :
        (close_requested /\ pc[c] = "waiting") ~>
            (pc[c] = "exit" \/ ~close_requested \/ must_cancel[c] \/ pc[c] = "cancelled")

\* C3 witness: under one set flag a caller has left with ExitRequest while another, woken
\* by the same kind of close, is about to.
C3_Witness ==
    /\ close_requested
    /\ \E c, d \in Callers :
          /\ pc[c] = "exit" /\ cw[c] = "done" /\ fut[c] = "cancelled"
          /\ pc[d] = "waiting" /\ cw[d] = "woken"

C5_ResolveNoOp ==
    [][/\ (on_confirm /\ ~(confirm_future # None /\ fut[confirm_future] = "pending"))
              => UNCHANGED vars
       /\ \A c \in Callers : fut[c] \in {"result", "cancelled"} => fut'[c] = fut[c]]_vars

\* C5 witness: the slot holds a future already resolved (the caller has not resumed yet),
\* the state in which a second click arrives.
C5_Witness ==
    /\ confirm_future # None
    /\ fut[confirm_future] = "result"
    /\ confirm_enabled
    /\ raised = "none"

\* C6 (as stated): whichever completes first wins: once the awaited value has completed
\* while the flag is clear, the caller does not get ExitRequest.
C6_Original ==
    \A c \in Callers :
        []((pc[c] = "waiting" /\ fut[c] = "result" /\ cw[c] = "blocked" /\ ~close_requested)
              => [](pc[c] # "exit"))

\* C6 (amended): the flag as the caller resumes decides the race, not the order of
\* completion: a caller that was not cancelled gets ExitRequest when the flag is set at
\* that moment, also when the awaited value completed first; when the flag is clear it
\* returns, and with the awaited value's result unless its close-wait has completed too.
C6_FlagAtResumeDecides ==
    [][\A c \in Callers :
          (Leaves(c) /\ ~must_cancel[c]) =>
              /\ close_requested => pc'[c] = "exit"
              /\ ~close_requested => pc'[c] = "returned"
              /\ (~close_requested /\ cw[c] # "done") =>
                     (fut[c] = "result" /\ result'[c] = "value")]_vars

\* C6 witness: one caller got its value with the flag clear, another one's value completed
\* too but it resumed with the flag set and got ExitRequest.
C6_Witness ==
    \E c, d \in Callers :
        /\ pc[c] = "returned" /\ result[c] = "value" /\ cw[c] = "cancelled"
        /\ pc[d] = "exit" /\ fut[d] = "result" /\ kind[d] = "plain"

\* C7: whenever control leaves coro_unless_closed (return, ExitRequest or cancellation of
\* the calling task) neither the awaited future nor the close-wait task of that call is
\* left pending: each is done or has been cancelled.
C7_NothingLeftPending ==
    [][\A c \in Callers :
          Leaves(c) =>
              (fut'[c] # "pending" /\ cw'[c] \notin {"new", "blocked", "woken"})]_vars

\* C8: a close() after prevent_close() wakes every caller that suspended after the clear:
\* such a caller is not resumed while the flag stays clear and its value is outstanding,
\* the next close() schedules it, and resuming with the flag set it gets ExitRequest.
C8_CloseRearms ==
    [][\A c \in Callers :
          /\ (pc[c] = "waiting" /\ cw[c] = "blocked" /\ fut[c] = "pending" /\ ~must_cancel[c])
                => (waiter[c] = "pending" /\ pc'[c] = "waiting")
          /\ (cw[c] = "blocked" /\ ~close_requested /\ close_requested')
                => cw'[c] = "woken"
          /\ (Leaves(c) /\ cw[c] \in {"woken", "done"} /\ close_requested /\ ~must_cancel[c])
                => pc'[c] = "exit"]_vars

\* C8 witness: a caller left with ExitRequest in an earlier cycle, the flag was cleared,
\* and another caller's close-wait joined the waiters after the clear.
C8_Witness ==
    /\ ~close_requested
    /\ \E b, c \in Callers :
          /\ pc[b] = "exit"
          /\ pc[c] = "waiting" /\ cw[c] = "blocked" /\ waiter[c] = "pending"

\* C9: the flag goes from set to clear only by prevent_close(), and a close() while it is
\* set changes nothing.
C9_CloseMonotonic ==
    [][/\ (close_requested /\ ~close_requested') => prevent_close
       /\ (close /\ close_requested) => UNCHANGED vars]_vars

\* C9 witness: the flag is set, a caller has left with ExitRequest under it and a request
\* issued since is still suspended.
C9_Witness ==
    /\ close_requested
    /\ pc[1] = "exit"
    /\ pc[2] = "waiting" /\ kind[2] = "confirm" /\ cw[2] = "new"

\* C10: once _on_confirm has resolved a pending request, _wait_for_confirm returns
\* normally with the confirm button disabled, unless the flag gets set or the calling
\* task is cancelled.
C10_ConfirmFlow ==
    \A c \in Callers :
        (kind[c] = "confirm" /\ pc[c] = "waiting" /\ fut[c] = "result") ~>
            \/ pc[c] = "returned" /\ ~confirm_enabled /\ confirm_future = None
            \/ close_requested
            \/ must_cancel[c]
            \/ pc[c] = "cancelled"

\* C10 witness: a resolved request has returned, the flag never having been seen set by
\* its close-wait, and the button is disabled.
C10_Witness ==
    \E c \in Callers :
        /\ kind[c] = "confirm" /\ pc[c] = "returned" /\ result[c] = "value"
        /\ cw[c] = "cancelling"
        /\ ~confirm_enabled /\ ~close_requested

\* ================================================================ main() layer
\* Bug: line 301 does not test close_requested.
ErrorPath_ignoresClose(outcome, restart_on, closed, count, triggered) ==
    CASE outcome = "normal" -> "normal"
      [] outcome = "captcha" -> "captcha"
      [] outcome = "other" -> "other"
      [] outcome = "connection" ->
            IF restart_on
            THEN IF MaxRestartAttempts > 0 /\ count >= MaxRestartAttempts THEN "conn_max"
                 ELSE IF triggered THEN "restart"
                 ELSE "restart_failed"
            ELSE "conn_norestart"

\* Lines 295-325: the branch that handles the way client.run() ended. restart_on is
\* settings.auto_restart_on_error, closed the flag at line 301, count the restart_count
\* after line 302, triggered what trigger_full_restart() returned.
ErrorPath(outcome, restart_on, closed, count, triggered) ==
    CASE outcome = "normal" -> "normal"
      [] outcome = "captcha" -> "captcha"
      [] outcome = "other" -> "other"
      [] outcome = "connection" ->
            IF restart_on /\ ~closed
            THEN IF MaxRestartAttempts > 0 /\ count >= MaxRestartAttempts THEN "conn_max"
                 ELSE IF triggered THEN "restart"
                 ELSE "restart_failed"
            ELSE "conn_norestart"

\* Bug: the failed restart (line 317) does not call prevent_close.
CallsPreventClose_notAfterFailedRestart(p) ==
    p \in {"captcha", "conn_max", "conn_norestart", "other"}

\* Bug: client.prevent_close() called on every way out of client.run().
CallsPreventClose_always(p) == TRUE

\* The branches that call client.prevent_close(): lines 297, 305, 317, 319, 323.
CallsPreventClose(p) == p \in {"captcha", "conn_max", "restart_failed", "conn_norestart", "other"}

\* The flag after client.prevent_close(): the client hands the call to
\* GUIManager.prevent_close, which clears the Event.
ClientPreventClose(flag) == FALSE

\* Bug: the break of line 314 missing: the restarting instance goes on to the normal
\* shutdown procedure.
LeavesLoop_never(p) == FALSE

\* Line 314: break leaves the while loop once the finally has run.
LeavesLoop(p) == p = "restart"

\* Lines 286-294: a client is made, the signal handlers installed, client.run() awaited.
main_start ==
    /\ mpc = "start"
    /\ mpc' = "run"
    /\ exit_status' = 0
    /\ UNCHANGED <<close_requested, formvars, callvars, loginvars, displayvars, iconvars, guivars, path, restart_count,
                   allow_window_close, window_open, prevents, shutdown_done, close_observed,
                   closed_since, auto_restart, icon_state, saves>>

\* client.run() ends; lines 295-331 up to the suspension in client.shutdown().
run_ends ==
    /\ mpc = "run"
    /\ \E outcome \in RunOutcomes, triggered \in BOOLEAN :
          LET counted == outcome = "connection" /\ auto_restart /\ ~close_requested
              count == IF counted THEN restart_count + 1 ELSE restart_count
              p == ErrorPath(outcome, auto_restart, close_requested, count, triggered)
          IN  /\ path' = p
              /\ restart_count' = count
              /\ exit_status' = IF outcome = "normal" THEN 0 ELSE 1
              /\ close_requested' = IF CallsPreventClose(p)
                                    THEN ClientPreventClose(close_requested)
                                    ELSE close_requested
              /\ prevents' = IF CallsPreventClose(p) THEN prevents + 1 ELSE prevents
              /\ saves' = IF p \in {"restart", "restart_failed"} THEN saves + 1 ELSE saves
    /\ closed_since' = FALSE
    /\ mpc' = "shutdown"
    /\ UNCHANGED <<formvars, callvars, loginvars, displayvars, iconvars, guivars, allow_window_close, window_open,
                   shutdown_done, close_observed, auto_restart, icon_state>>

\* Bug: the close event always accepted.
AcceptsClose_always(allow) == TRUE

\* Line 992: the close event is accepted when _allow_window_close is set.
AcceptsClose(allow) == allow

\* Bug: wait_until_closed does not wait.
WaitReturnsAtOnce_always(flag) == TRUE

\* Bug: the test of the flag inverted.
WaitReturnsAtOnce_whenClear(flag) == ~flag

\* Line 1370, Event.wait(): returns at once when the flag is set, else suspends.
WaitReturnsAtOnce(flag) == flag

\* Lines 345-348 with GUIManager.close_window (1407-1411): _allow_window_close is set and
\* self._window.close() delivers a close event to closeEvent; then sys.exit.
TearDown ==
    /\ close_observed' = TRUE
    /\ allow_window_close' = TRUE
    /\ window_open' = (window_open /\ ~AcceptsClose(TRUE))
    /\ saves' = saves + 1
    /\ mpc' = "exited"

\* Bug: client.shutdown() awaited after the try statement instead of in its finally: the
\* break of line 314 passes it by.
AwaitsShutdown_notOnBreak(p) == p # "restart"

\* Lines 326-331: the finally clause awaits client.shutdown() on every way out of the try
\* statement, the break included.
AwaitsShutdown(p) == TRUE

\* client.shutdown() completes; main() runs on from line 331: out of the loop after a
\* break, else lines 334-341 (the tray icon shows the error when the closure was not
\* requested) and, when the flag is set, through to sys.exit.
shutdown_ends ==
    /\ mpc = "shutdown"
    /\ shutdown_done' = AwaitsShutdown(path)
    /\ IF LeavesLoop(path)
       THEN /\ mpc' = "restarted"
            /\ UNCHANGED <<allow_window_close, window_open, close_observed, icon_state, saves>>
       ELSE /\ icon_state' = IF ~close_requested THEN "error" ELSE icon_state
            /\ IF WaitReturnsAtOnce(close_requested)
               THEN TearDown
               ELSE /\ mpc' = "wait_closed"
                    /\ UNCHANGED <<allow_window_close, window_open, close_observed, saves>>
    /\ UNCHANGED <<close_requested, formvars, callvars, loginvars, displayvars, iconvars, guivars, path, exit_status,
                   restart_count, prevents, closed_since, auto_restart>>

\* main() is resumed in wait_until_closed by the set() that woke it: lines 345-348.
main_wakes ==
    /\ mpc = "wait_woken"
    /\ TearDown
    /\ UNCHANGED <<close_requested, formvars, callvars, loginvars, displayvars, iconvars, guivars, path, exit_status,
                   restart_count, prevents, shutdown_done, closed_since, auto_restart,
                   icon_state>>

\* GUIManager.close() called while main() runs: the flag is set and a main() suspended in
\* wait_until_closed on a clear flag is woken.
CloseCalled ==
    /\ close_requested' = CloseValue(close_requested)
    /\ mpc' = IF mpc = "wait_closed" /\ ~close_requested THEN "wait_woken" ELSE mpc
    /\ closed_since' = (mpc \notin {"start", "run"})
    /\ UNCHANGED <<formvars, callvars, loginvars, displayvars, iconvars, guivars, path, exit_status, restart_count,
                   prevents, shutdown_done, close_observed, auto_restart, icon_state, saves>>

\* _MainWindow.closeEvent: the user closes the window.
closeEvent ==
    /\ window_open
    /\ mpc \notin {"exited", "restarted"}
    /\ IF AcceptsClose(allow_window_close)
       THEN /\ window_open' = FALSE
            /\ UNCHANGED <<close_requested, mpc, closed_since, formvars, callvars, loginvars, displayvars, iconvars, guivars,
                           path, exit_status, restart_count, prevents, shutdown_done,
                           close_observed, auto_restart, icon_state, saves>>
       ELSE /\ CloseCalled
            /\ UNCHANGED window_open
    /\ UNCHANGED allow_window_close

\* GUIManager.close() from the tray menu's quit entry, or from the SIGINT / SIGTERM
\* handlers main() installs while client.run() is awaited.
close_requested_elsewhere ==
    /\ mpc \notin {"exited", "restarted"}
    /\ CloseCalled
    /\ UNCHANGED <<allow_window_close, window_open>>

\* The user toggles the auto-restart checkbox of the settings panel (line 1348).
toggle_auto_restart ==
    /\ mpc \notin {"exited", "restarted"}
    /\ auto_restart' = ~auto_restart
    /\ UNCHANGED <<close_requested, formvars, callvars, loginvars, displayvars, iconvars, guivars, mpc, path, exit_status,
                   restart_count, allow_window_close, window_open, prevents, shutdown_done,
                   close_observed, closed_since, icon_state, saves>>

\* The flag of the client after Twitch.logout().
TwitchLogout(logged_in) == FALSE

\* The client has logged in and shows it: LoginForm.update(logged_in, user_id).
update_logged_in ==
    /\ mpc = "run"
    /\ ~client_logged_in
    /\ \E u \in UserIds :
          /\ login_status' = UpdateStatus("logged_in", u)
          /\ user_label' = UpdateUserLabel("logged_in", u)
          /\ logout_enabled' = UpdateLogoutEnabled("logged_in", u)
    /\ client_logged_in' = TRUE
    /\ UNCHANGED <<close_requested, formvars, callvars, loginvars, mainvars, iconvars, guivars>>

\* LoginForm._on_logout, the clicked slot of the logout button (an enabled button only
\* emits it): the client logs out, the display is reset, ReloadRequest is raised.
on_logout ==
    /\ mpc \notin {"exited", "restarted"}
    /\ logout_enabled
    /\ client_logged_in' = TwitchLogout(client_logged_in)
    /\ login_status' = UpdateStatus("logged_out", None)
    /\ user_label' = UpdateUserLabel("logged_out", None)
    /\ logout_enabled' = UpdateLogoutEnabled("logged_out", None)
    /\ raised' = "ReloadRequest"
    /\ UNCHANGED <<close_requested, confirm_future, confirm_enabled, callvars, loginvars,
                   mainvars, iconvars, guivars>>

MainNext ==
    \/ main_start
    \/ toggle_auto_restart
    \/ update_logged_in
    \/ on_logout
    \/ run_ends
    \/ shutdown_ends
    \/ main_wakes
    \/ closeEvent
    \/ close_requested_elsewhere

MainSpec == Init /\ [][MainNext]_vars

\* main() is a task of the running loop: it starts, it is resumed when client.run() ends
\* (the claims about the ways it ends take it to end), when client.shutdown() completes
\* and when the Event wakes it.
MainFairSpec ==
    /\ MainSpec
    /\ WF_mainvars(main_start)
    /\ WF_mainvars(run_ends)
    /\ WF_mainvars(shutdown_ends)
    /\ WF_mainvars(main_wakes)

\* ================================================================ icon layer
\* QtImageCache.get_icon as far as it runs without suspending (lines 231-241): the icon
\* the caches hold for key k, "none" when both miss and the image has to be requested.
\* m is _mem, d what the files of the cache directory hold.
CachedIcon(m, d, k) == IF m[k] # "none" THEN m[k] ELSE d[k]

\* _mem after lines 231-241: an icon loaded from the file is remembered.
MemAfterLookup(m, d, k) == IF CachedIcon(m, d, k) # "none" THEN [m EXCEPT ![k] = CachedIcon(m, d, k)] ELSE m

\* Bug: no except clause around the request.
CatchesFetchError_not(outcome) == FALSE

\* Line 248: except Exception catches what the request or the read raises.
CatchesFetchError(outcome) == TRUE

\* Lines 243-249: data after the request. A failed request or a status other than 200
\* leaves None; else the bytes read.
FetchedData(outcome) ==
    CASE outcome = "raises" -> "None"
      [] outcome = "not_200" -> "None"
      [] outcome = "empty" -> "empty"
      [] outcome = "not_image" -> "junk"
      [] outcome = "image" -> "png"

\* Lines 251-257: the pixmap after the fetch: loadFromData is tried on non-empty data and
\* succeeds on image data; a null pixmap is replaced by a transparent one of the size asked.
IconFromData(data) ==
    LET loaded == data \notin {"None", "empty"} /\ data = "png"
    IN  IF loaded THEN "image" ELSE "blank"

\* What get_icon hands to its caller after the request: an icon, or "raised" when an
\* exception leaves it.
GetIconResult(outcome) ==
    IF outcome = "raises" /\ ~CatchesFetchError(outcome) THEN "raised"
    ELSE IconFromData(FetchedData(outcome))

\* Lines 259-267 for caller task: the pixmap is saved when the file can be written, and
\* the icon remembered.
FinishFetch(k, got, saved) ==
    /\ mem' = IF got = "raised" THEN mem ELSE [mem EXCEPT ![k] = got]
    /\ disk' = IF got # "raised" /\ saved THEN [disk EXCEPT ![k] = got] ELSE disk

\* Lines 650-657 of add_campaign: the item's icon; an exception is passed over and the
\* item keeps no icon.
ItemIconFor(got) == IF got = "raised" THEN "unset" ELSE got

\* Lines 1463-1467: the icon handed to set_watching_drop_icon, which shows QIcon() for None.
WatchIconFor(got) == IF got = "raised" THEN "null" ELSE got

\* InventoryOverview.add_campaign for one drop, up to the end or to the suspension in the
\* request of get_icon.
add_campaign ==
    /\ inv_pc = "idle"
    /\ \E u \in Urls :
          LET k == <<u, InvSize>>
              hit == CachedIcon(mem, disk, k)
          IN  /\ inv_url' = u
              /\ inv_fetch' = "none"
              /\ mem' = MemAfterLookup(mem, disk, k)
              /\ IF hit # "none"
                 THEN /\ inv_got' = hit
                      /\ item_icon' = [item_icon EXCEPT ![u] = ItemIconFor(hit)]
                      /\ UNCHANGED inv_pc
                 ELSE /\ inv_pc' = "fetching"
                      /\ inv_got' = "none"
                      /\ UNCHANGED item_icon
    /\ UNCHANGED <<close_requested, formvars, callvars, loginvars, mainvars, displayvars, guivars,
                   disk, watch_pc, watch_url, watch_fetch, watch_got, watch_icon>>

\* The request of add_campaign's get_icon ends; get_icon and the loop body run to the end.
add_campaign_resume ==
    /\ inv_pc = "fetching"
    /\ \E outcome \in FetchOutcomes, saved \in BOOLEAN :
          LET got == GetIconResult(outcome)
          IN  /\ FinishFetch(<<inv_url, InvSize>>, got, saved)
              /\ inv_fetch' = outcome
              /\ inv_got' = got
              /\ item_icon' = [item_icon EXCEPT ![inv_url] = ItemIconFor(got)]
    /\ inv_pc' = "idle"
    /\ UNCHANGED <<close_requested, formvars, callvars, loginvars, mainvars, displayvars, guivars,
                   inv_url, watch_pc, watch_url, watch_fetch, watch_got, watch_icon>>

\* GUIManager._load_and_set_watching_drop_icon, up to the end or to the suspension in
\* the request of get_icon.
load_and_set_watching_drop_icon ==
    /\ watch_pc = "idle"
    /\ \E u \in Urls :
          LET k == <<u, WatchSize>>
              hit == CachedIcon(mem, disk, k)
          IN  /\ watch_url' = u
              /\ watch_fetch' = "none"
              /\ mem' = MemAfterLookup(mem, disk, k)
              /\ IF hit # "none"
                 THEN /\ watch_got' = hit
                      /\ watch_icon' = WatchIconFor(hit)
                      /\ UNCHANGED watch_pc
                 ELSE /\ watch_pc' = "fetching"
                      /\ watch_got' = "none"
                      /\ UNCHANGED watch_icon
    /\ UNCHANGED <<close_requested, formvars, callvars, loginvars, mainvars, displayvars, guivars,
                   disk, inv_pc, inv_url, inv_fetch, inv_got, item_icon>>

\* The request of the watched drop's get_icon ends.
load_and_set_resume ==
    /\ watch_pc = "fetching"
    /\ \E outcome \in FetchOutcomes, saved \in BOOLEAN :
          LET got == GetIconResult(outcome)
          IN  /\ FinishFetch(<<watch_url, WatchSize>>, got, saved)
              /\ watch_fetch' = outcome
              /\ watch_got' = got
              /\ watch_icon' = WatchIconFor(got)
    /\ watch_pc' = "idle"
    /\ UNCHANGED <<close_requested, formvars, callvars, loginvars, mainvars, displayvars, guivars,
                   watch_url, inv_pc, inv_url, inv_fetch, inv_got, item_icon>>

IconNext ==
    \/ add_campaign
    \/ add_campaign_resume
    \/ load_and_set_watching_drop_icon
    \/ load_and_set_resume

IconSpec == Init /\ [][IconNext]_vars

\* ---------------------------------------------------------------- login claims
\* C11: ask_login ends only by returning a LoginData or by ExitRequest, and every
\* LoginData it returns has a username of 3 to 25 characters of letters, digits and
\* underscore, a password of at least 8 characters and a token that is empty or has at
\* least 6 characters, whatever the number of attempts.
C11_ReturnsValidOnly ==
    /\ pc[LoginTask] \in {"idle", "waiting", "returned", "exit"}
    /\ login_data # NoData <=> (pc[LoginTask] = "returned" /\ requests >= 1)
    /\ login_data # NoData =>
          LET d == login_data[1]
          IN  /\ Len(d.username) \in 3..25
              /\ \A i \in 1..Len(d.username) : d.username[i] \in {"a", "1", "_"}
              /\ Len(d.password) >= 8
              /\ (Len(d.token) = 0 \/ Len(d.token) >= 6)

\* C11 witness: a LoginData returned after two rejected attempts, its username of the
\* greatest length allowed and its token empty.
C11_Witness ==
    /\ login_data # NoData
    /\ rejects = 2
    /\ Len(login_data[1].username) = 25
    /\ login_data[1].token = <<>>

\* ask_login resumes with the flag clear and goes on to read and validate the form.
Validates == ask_login_resume /\ ~close_requested

\* C12: whenever ask_login validates a form whose username, stripped, is not 3 to 25
\* characters of letters, digits and underscore, it rejects the attempt and clears the
\* username field only: password and token fields hold the same text as before.
C12_BadUsernameClearsUsernameOnly ==
    [][(/\ Validates
        /\ LET u == Strip(login_text)
           IN  ~(Len(u) \in 3..25 /\ \A i \in 1..Len(u) : u[i] \in {"a", "1", "_"}))
          => /\ login_text' = <<>>
             /\ password_text' = password_text
             /\ token_text' = token_text
             /\ login_data' = NoData
             /\ rejects' = rejects + 1]_vars

\* C12 witness: after one rejection the username field is empty while the password
\* field still holds a too-short password and the token field a too-short token.
C12_Witness ==
    /\ rejects = 1
    /\ login_text = <<>>
    /\ Len(password_text) = 7
    /\ Len(Strip(token_text)) = 5
    /\ pc[LoginTask] = "waiting" /\ fut[LoginTask] = "pending"

\* C13: a rejection clears the field of the failed check and no other: with a valid
\* username a too-short password clears the password field only, and with those two valid
\* a too-short non-empty token clears the token field only; after every rejection a new
\* request is pending in the slot and the confirm button is enabled.
C13_OnlyOffendingFieldCleared ==
    [][Validates =>
          LET u == Strip(login_text)
              t == Strip(token_text)
              uOK == Len(u) \in 3..25 /\ \A i \in 1..Len(u) : u[i] \in {"a", "1", "_"}
              pOK == Len(password_text) >= 8
              tOK == Len(t) = 0 \/ Len(t) >= 6
          IN  /\ (uOK /\ ~pOK) =>
                    /\ password_text' = <<>>
                    /\ login_text' = login_text
                    /\ token_text' = token_text
              /\ (uOK /\ pOK /\ ~tOK) =>
                    /\ token_text' = <<>>
                    /\ login_text' = login_text
                    /\ password_text' = password_text
              /\ ~(uOK /\ pOK /\ tOK) =>
                    /\ Cardinality({f \in Fields :
                           \/ f = "login" /\ login_text' # login_text
                           \/ f = "password" /\ password_text' # password_text
                           \/ f = "token" /\ token_text' # token_text}) <= 1
                    /\ rejects' = rejects + 1
                    /\ requests' = requests + 1
                    /\ pc'[LoginTask] = "waiting"
                    /\ confirm_enabled'
                    /\ confirm_future' = LoginTask
                    /\ fut'[LoginTask] = "pending"]_vars

\* C13 witness: after a username was accepted and a password rejected, a token was
\* rejected: the token field is empty, the other two keep their valid texts, and the
\* third request is pending.
C13_Witness ==
    /\ rejects = 2 /\ requests = 3
    /\ token_text = <<>>
    /\ Len(Strip(login_text)) = 25
    /\ Len(password_text) = 8
    /\ confirm_enabled /\ confirm_future = LoginTask /\ fut[LoginTask] = "pending"

\* The form as it stood at the click that resolved the pending request.
FormAtConfirm ==
    IF form_at_confirm = Unedited
    THEN LoginData(login_text, password_text, token_text)
    ELSE form_at_confirm[1]

\* C14 (as stated): every rejected attempt costs exactly one further request, so that k
\* rejections and one acceptance make k+1 requests, and the LoginData returned after a
\* confirmation carries the values (username and token stripped) as they stood in the
\* form at that confirmation.
C14_Original ==
    [][(Validates /\ fut[LoginTask] = "result") =>
          /\ requests = rejects + 1
          /\ login_data' = NoData =>
                (requests' = requests + 1 /\ rejects' = rejects + 1)
          /\ login_data' # NoData =>
                /\ requests' = requests /\ rejects' = rejects
                /\ login_data' = <<LoginData(Strip(FormAtConfirm.username),
                                              FormAtConfirm.password,
                                              Strip(FormAtConfirm.token))>>]_vars

\* C14 (amended): every rejected attempt costs exactly one further request, so that k
\* rejections and one acceptance make k+1 requests; with the flag never set a resumption
\* follows a confirmation; and the LoginData returned carries the values (username and
\* token stripped) as they stand in the form when ask_login resumes after the
\* confirmation, which an edit made since the click has changed.
C14_RetrySequence ==
    [][Validates =>
          LET d == LoginData(Strip(login_text), password_text, Strip(token_text))
          IN  /\ requests = rejects + 1
              /\ cw[LoginTask] # "done" => fut[LoginTask] = "result"
              /\ login_data' = NoData =>
                    (requests' = requests + 1 /\ rejects' = rejects + 1)
              /\ login_data' # NoData =>
                    /\ requests' = requests /\ rejects' = rejects
                    /\ login_data' = <<d>>
                    /\ pc'[LoginTask] = "returned"]_vars

\* C14 witness: a too-short username, then a too-short password were rejected, and the
\* third confirmation was accepted with the close flag never seen set by the request.
C14_Witness ==
    /\ rejects = 2 /\ requests = 3
    /\ login_data = <<LoginData(<<"a", "_", "1">>, password_text, <<>>)>>
    /\ cw[LoginTask] = "cancelling"
    /\ ~close_requested

\* ---------------------------------------------------------------- main() claims
\* The branches of main() that end a failed run without launching a restart.
FatalPaths == {"captcha", "conn_max", "restart_failed", "conn_norestart", "other"}

\* C15: GUIManager.close_window has run only when client.shutdown() has completed, the
\* branch for the way the run ended has been taken, and wait_until_closed has returned on
\* a set flag; on the path that launched a restart it never runs and the window stays.
C15_TeardownLast ==
    /\ allow_window_close =>
          /\ shutdown_done
          /\ path \in Paths \ {"restart"}
          /\ close_observed
          /\ close_requested
          /\ mpc = "exited"
    /\ path = "restart" => (~allow_window_close /\ window_open /\ mpc # "exited")

\* C15 witness: a restart could not be launched; the window was torn down after the
\* shutdown and the close.
C15_Witness ==
    /\ path = "restart_failed"
    /\ shutdown_done /\ close_observed
    /\ allow_window_close /\ ~window_open
    /\ mpc = "exited"

\* C16: after a run that ended with a fatal condition and launched no restart, the window
\* is not torn down and the process does not exit before GUIManager.close() has been
\* called after the prevent_close() of that error path.
C16_HeldUntilClosed ==
    (path \in FatalPaths /\ (mpc = "exited" \/ allow_window_close \/ ~window_open))
        => (closed_since /\ prevents >= 1)

\* C16 witness: after CaptchaRequired the process has exited with status 1, the error icon
\* having been shown and close() called since.
C16_Witness ==
    /\ path = "captcha"
    /\ mpc = "exited" /\ exit_status = 1
    /\ icon_state = "error"
    /\ closed_since

\* C17: main() calls prevent_close() at most once; exactly once when the run has failed
\* without launching a restart, and not at all when the run returned normally or a
\* restart was launched.
C17_PreventOncePerFailure ==
    /\ prevents <= 1
    /\ path \in {"none", "normal", "restart"} => prevents = 0
    /\ path \in FatalPaths => prevents = 1

\* C17 witness: a restart was tried and could not be launched: one prevent_close().
C17_Witness ==
    /\ path = "restart_failed"
    /\ restart_count = 1
    /\ prevents = 1
    /\ mpc = "wait_closed"

\* C18: a close event delivered while _allow_window_close is false calls
\* GUIManager.close() and leaves the window; the window goes only by a close event
\* accepted under the flag, and the flag is set by close_window alone, as main() exits.
C18_CloseEventDefers ==
    [][/\ (closeEvent /\ ~allow_window_close) =>
              (close_requested' /\ window_open' /\ ~allow_window_close')
       /\ (window_open /\ ~window_open') => allow_window_close'
       /\ (allow_window_close' # allow_window_close) =>
              /\ allow_window_close'
              /\ shutdown_ends \/ main_wakes
              /\ mpc' = "exited"]_vars

\* C18 witness: the window was closed by the user while client.shutdown() runs: the flag
\* of the close request is set and the window is still there.
C18_Witness ==
    /\ mpc = "shutdown"
    /\ closed_since /\ close_requested
    /\ window_open /\ ~allow_window_close

\* C19: _on_logout ends by raising ReloadRequest, with the client logged out and the
\* login display reset (status logged out, no user id, logout button disabled).
C19_LogoutRaisesReload ==
    [][on_logout =>
          /\ raised' = "ReloadRequest"
          /\ ~client_logged_in'
          /\ login_status' = "logged_out"
          /\ user_label' = "-"
          /\ ~logout_enabled']_vars

\* C19 witness: the user was logged in and has logged out.
C19_Witness ==
    /\ raised = "ReloadRequest"
    /\ ~client_logged_in
    /\ login_status = "logged_out" /\ user_label = "-" /\ ~logout_enabled

\* ---------------------------------------------------------------- icon claims
\* C20: no failure of the request leaves get_icon as an exception: when the request
\* raised, answered with a status other than 200, or gave no data or data that is no
\* image, get_icon has returned the blank placeholder, add_campaign has given it to the
\* drop's item and _load_and_set_watching_drop_icon to the watched row, both running on
\* to their end.
C20_FetchFailureGivesBlank ==
    /\ inv_got # "raised" /\ watch_got # "raised"
    /\ inv_fetch # "none" => (inv_pc = "idle" /\ inv_got \in {"image", "blank"})
    /\ watch_fetch # "none" => (watch_pc = "idle" /\ watch_got \in {"image", "blank"})
    /\ inv_fetch \in {"raises", "not_200", "empty", "not_image"} =>
          (inv_got = "blank" /\ item_icon[inv_url] = "blank")
    /\ watch_fetch \in {"raises", "not_200", "empty", "not_image"} =>
          (watch_got = "blank" /\ watch_icon = "blank")

\* C20 witness: the request of add_campaign raised and that of the watched drop returned
\* data that is no image: both callers hold the blank placeholder.
C20_Witness ==
    /\ inv_fetch = "raises" /\ inv_got = "blank" /\ item_icon[inv_url] = "blank"
    /\ watch_fetch = "not_image" /\ watch_got = "blank" /\ watch_icon = "blank"

\* ================================================================ settings panel layer
\* list.pop(i) and QListWidget.takeItem(row): the list without the element at row i
\* (rows count from 0).
TakeAt(seq, i) == SubSeq(seq, 1, i) \o SubSeq(seq, i + 2, Len(seq))

\* list.insert(i, x) and QListWidget.insertItem(row, item): x put before the element at
\* row i, at the end when there is no such row.
InsertAt(seq, i, x) ==
    LET k == IF i > Len(seq) THEN Len(seq) ELSE i
    IN  SubSeq(seq, 1, k) \o <<x>> \o SubSeq(seq, k + 1, Len(seq))

\* x in list.
Has(seq, x) == \E i \in 1..Len(seq) : seq[i] = x

\* list.remove(x) for a list that has x: the first occurrence is removed.
ListRemove(seq, x) ==
    TakeAt(seq, (CHOOSE i \in 1..Len(seq) : seq[i] = x /\ \A j \in 1..(i - 1) : seq[j] # x) - 1)

\* currentRow() of the list widget after takeItem(row) of a list that keeps count rows:
\* the current row taken, the row after it becomes current (it has the same number), the
\* last one when there is none after it.
RowAfterTake(cur, row, count) ==
    IF cur = row THEN (IF row < count THEN row ELSE count - 1)
    ELSE IF cur > row THEN cur - 1 ELSE cur

\* SettingsPanel.__init__ (lines 814-815): the list widget gets the names of
\* settings.priority, whatever the settings file held.
SettingsPanel_init ==
    /\ ~settings_panel.built
    /\ \E l \in PriorityLists :
          settings_panel' = [built |-> TRUE, priority |-> l, priority_list |-> l,
                             current_row |-> NoRow, altered |-> FALSE]
    /\ UNCHANGED <<corevars, loginvars, mainvars, displayvars, iconvars, channelvars,
                   progressvars>>

\* The user clicks a row of the priority list.
select_row ==
    /\ settings_panel.built
    /\ \E r \in 0..(Len(settings_panel.priority_list) - 1) :
          /\ r # settings_panel.current_row
          /\ settings_panel' = [settings_panel EXCEPT !.current_row = r]
    /\ UNCHANGED <<corevars, loginvars, mainvars, displayvars, iconvars, channelvars,
                   progressvars>>

\* SettingsPanel.priority_add with text in the combo box (lines 831-837).
priority_add ==
    /\ settings_panel.built
    /\ Len(settings_panel.priority) < MaxPriority
    /\ Len(settings_panel.priority_list) < MaxPriority
    /\ \E text \in ComboTexts :
          LET name == Strip(text)
          IN  IF name = <<>> \/ Has(settings_panel.priority, name)
              THEN UNCHANGED settings_panel
              ELSE settings_panel' =
                      [settings_panel EXCEPT !.priority = Append(@, name),
                                             !.altered = TRUE,
                                             !.priority_list = Append(@, name)]
    /\ UNCHANGED <<corevars, loginvars, mainvars, displayvars, iconvars, channelvars,
                   progressvars>>

\* SettingsPanel.priority_delete (lines 839-849): the current row is taken out of the
\* widget, and its name removed from settings.priority when the list has it.
priority_delete ==
    /\ settings_panel.built
    /\ LET row == settings_panel.current_row
           name == settings_panel.priority_list[row + 1]
           rest == TakeAt(settings_panel.priority_list, row)
       IN  IF row < 0
           THEN UNCHANGED settings_panel
           ELSE settings_panel' =
                   [settings_panel EXCEPT
                       !.priority_list = rest,
                       !.current_row = RowAfterTake(@, row, Len(rest)),
                       !.priority = IF Has(@, name) THEN ListRemove(@, name) ELSE @,
                       !.altered = @ \/ Has(settings_panel.priority, name)]
    /\ UNCHANGED <<corevars, loginvars, mainvars, displayvars, iconvars, channelvars,
                   progressvars>>

\* SettingsPanel.priority_move (lines 851-867). settings.priority.pop(row) raises
\* IndexError when the list has no such row: the slot ends there, the widget changed.
priority_move ==
    /\ settings_panel.built
    /\ \E up \in BOOLEAN :
          LET row == settings_panel.current_row
              new_row == IF up THEN row - 1 ELSE row + 1
              name == settings_panel.priority_list[row + 1]
              inRange == row < Len(settings_panel.priority)
          IN  IF row < 0 \/ new_row < 0 \/ new_row >= Len(settings_panel.priority_list)
              THEN UNCHANGED settings_panel
              ELSE settings_panel' =
                      [settings_panel EXCEPT
                          !.priority_list = InsertAt(TakeAt(@, row), new_row, name),
                          !.current_row = new_row,
                          !.priority = IF inRange THEN InsertAt(TakeAt(@, row), new_row, name)
                                       ELSE @,
                          !.altered = @ \/ inRange]
    /\ UNCHANGED <<corevars, loginvars, mainvars, displayvars, iconvars, channelvars,
                   progressvars>>

PanelNext ==
    \/ SettingsPanel_init
    \/ select_row
    \/ priority_add
    \/ priority_delete
    \/ priority_move

PanelSpec == Init /\ [][PanelNext]_vars

\* ---------------------------------------------------------------- settings panel claims
\* C21: once the panel is built, after any sequence of priority_add, priority_delete and
\* priority_move the names in the list widget are the names of settings.priority, element
\* for element, whatever list the settings held at the start.
C21_PriorityWrittenBack ==
    settings_panel.built => settings_panel.priority_list = settings_panel.priority

\* ---------------------------------------------------------------- rendezvous claims
\* C22: whenever coro_unless_closed has returned normally, what it returned is the result
\* of the awaited future, and that future has completed: it is never the result of the
\* close-wait task, and the awaited future is never one the call has cancelled.
C22_ReturnsAwaitedResult ==
    \A c \in Callers : pc[c] = "returned" => (result[c] = "value" /\ fut[c] = "result")

\* ---------------------------------------------------------------- main() claims
\* C23 (as stated): a close request is never lost: once the flag is set main() gets to
\* the end of the process, whichever way client.run() ends, with no further request
\* (leaving the loop for a restart is taken as an end too).
C23_Original == close_requested ~> (mpc \in {"exited", "restarted"})

\* C23 (amended): a close request standing when client.run() returns normally is kept,
\* and a request standing once client.run() has ended (kept, or made since) takes main()
\* to close_window and sys.exit with no further request, or out of the loop without
\* close_window when a restart was triggered.
C23_CloseKeptUnlessError ==
    /\ [][(run_ends /\ close_requested /\ path' = "normal") => close_requested']_vars
    /\ (close_requested /\ mpc \in {"shutdown", "wait_closed", "wait_woken"})
          ~> \/ mpc = "exited" /\ ~window_open
             \/ mpc = "restarted" /\ path = "restart"

\* C23 witness: main() has left after a normal return of client.run(), on the close
\* request made while it ran: none was made since, and the tray icon never showed an error.
C23_Witness ==
    /\ mpc = "exited" /\ path = "normal" /\ exit_status = 0
    /\ close_requested /\ ~closed_since
    /\ icon_state = "pickaxe"
    /\ ~window_open

\* C24: client.shutdown() is awaited exactly once, on every way out of client.run(): it
\* completes once, and it has completed before main() waits in wait_until_closed, before
\* the final save, gui.stop and close_window, and before main() leaves the loop.
C24_ShutdownOnceFirst ==
    [][/\ shutdown_ends => (~shutdown_done /\ shutdown_done')
       /\ shutdown_done => shutdown_done'
       /\ (\/ mpc' \in {"wait_closed", "wait_woken", "exited", "restarted"}
           \/ close_observed' \/ allow_window_close' \/ ~window_open')
             => shutdown_done'
       /\ (mpc = "shutdown" /\ mpc' # "shutdown") => shutdown_ends]_vars

\* C24 witness: a restart was triggered and main() has left the loop by the break, the
\* shutdown awaited on the way.
C24_Witness ==
    /\ path = "restart" /\ mpc = "restarted"
    /\ shutdown_done
    /\ ~close_observed /\ window_open

\* C25: the final client.save(force=True) is made as main() exits, once wait_until_closed
\* has returned on a close request, in the step that stops the GUI and closes the window;
\* client.save is called nowhere else but before a restart is triggered, and no setting
\* changes after the final save, so it covers every change made before the close request.
C25_FinalSaveAfterWait ==
    [][/\ (mpc' = "exited" /\ mpc # "exited") =>
              /\ close_requested \/ mpc = "wait_woken"
              /\ shutdown_done'
              /\ close_observed'
              /\ saves' = saves + 1
              /\ allow_window_close' /\ ~window_open'
       /\ saves' # saves => (mpc' = "exited" \/ (run_ends /\ path' \in {"restart", "restart_failed"}))
       /\ auto_restart' # auto_restart => (mpc' = mpc /\ mpc \notin {"exited", "restarted"})]_vars

\* C25 witness: the restart could not be triggered, the user switched auto restart off
\* while the window was held open, then closed it: main() has exited with the final save
\* made after that.
C25_Witness ==
    /\ path = "restart_failed" /\ mpc = "exited"
    /\ ~auto_restart
    /\ closed_since /\ close_observed
    /\ saves = 2

\* trigger_full_restart() is called on the branches "restart" (it returned True) and
\* "restart_failed".
Triggers(p) == p \in {"restart", "restart_failed"}

\* C26: trigger_full_restart() is called only when client.run() ended with a connection
\* error while auto restart is on and the flag is clear, at most once (no client is made
\* after the first has run), with client.save(force=True) called before it; after a
\* trigger that succeeded main() leaves the loop without wait_until_closed, close_window
\* or another client.
C26_RestartOnlyOnConnectionError ==
    [][/\ (run_ends /\ Triggers(path')) =>
              /\ auto_restart /\ ~close_requested
              /\ \E t \in BOOLEAN :
                    path' = ErrorPath("connection", auto_restart, close_requested,
                                      restart_count', t)
              /\ \A o \in RunOutcomes \ {"connection"}, t \in BOOLEAN :
                    ~Triggers(ErrorPath(o, auto_restart, close_requested, restart_count', t))
              /\ exit_status' = 1
              /\ restart_count = 0 /\ restart_count' = 1
              /\ saves' = saves + 1
              /\ ~close_requested'
       /\ path' # path => (run_ends /\ path = "none")
       /\ mpc' = "run" => mpc \in {"start", "run"}
       /\ mpc' = "start" => mpc = "start"
       /\ path' = "restart" =>
              /\ mpc' \in {"shutdown", "restarted"}
              /\ ~close_observed' /\ ~allow_window_close' /\ window_open'
              /\ saves' = 1]_vars

\* C26 witness: a restart was triggered on the first connection error and main() has left
\* the loop, the state saved once and the window never closed by main().
C26_Witness ==
    /\ mpc = "restarted" /\ path = "restart"
    /\ restart_count = 1 /\ exit_status = 1
    /\ saves = 1
    /\ prevents = 0
    /\ ~close_observed /\ ~allow_window_close

\* ================================================================ channel list layer
\* self._table.item(row, 0) is an item: the table has the row.
HasItem(ch, row) == row >= 0 /\ row < Len(ch.table)

\* ChannelList.clear_watching (lines 378-393) on the list ch.
ClearWatching(ch) ==
    IF ch.watching_iid = None THEN ch
    ELSE LET row == ch.rows[ch.watching_iid]
         IN  [ch EXCEPT !.table = IF HasItem(ch, row)
                                  THEN [@ EXCEPT ![row + 1].icon = NoIcon,
                                                 ![row + 1].bg = FALSE]
                                  ELSE @,
                        !.watching_iid = None]

\* ChannelList.set_watching (lines 395-406) for the channel iid.
SetWatching(ch, iid) ==
    LET cleared == ClearWatching(ch)
        row == cleared.rows[iid]
    IN  IF row = NoRow THEN cleared
        ELSE [cleared EXCEPT !.table = IF HasItem(cleared, row)
                                       THEN [@ EXCEPT ![row + 1].bg = TRUE]
                                       ELSE @,
                             !.watching_iid = iid]

\* ChannelList.set_watching_drop_icon (lines 408-417): icon is an icon or None, for which
\* QIcon() is shown.
SetWatchingDropIcon(ch, icon) ==
    IF ch.watching_iid = None THEN ch
    ELSE LET row == ch.rows[ch.watching_iid]
         IN  IF row = NoRow \/ ~HasItem(ch, row) THEN ch
             ELSE [ch EXCEPT !.table = [@ EXCEPT ![row + 1].icon =
                                                    IF icon = IconNone THEN NoIcon ELSE icon]]

\* Bug: the row mapping left as it is after removeRow.
RowsRebuilt_not(rows, tbl) == rows

\* Lines 493-497: the row mapping built again from the UserRole data of the rows (the
\* last row wins when two hold the same iid). rows is the mapping after the pop.
RowsRebuilt(rows, tbl) ==
    [i \in Iids |->
        IF \E r \in 1..Len(tbl) : tbl[r].iid = i
        THEN (CHOOSE r \in 1..Len(tbl) :
                 tbl[r].iid = i /\ \A q \in (r + 1)..Len(tbl) : tbl[q].iid # i) - 1
        ELSE NoRow]

\* Line 446: display returns at once for a channel not in the table unless add is true.
SkipsDisplay(rows, iid, add) == ~add /\ rows[iid] = NoRow

\* ChannelList.display (lines 444-484): a new row at the end of the table for a channel
\* not in it, else the texts of its row set again, which leaves its iid, icon and
\* background as they are.
Display(ch, iid, add) ==
    IF SkipsDisplay(ch.rows, iid, add) THEN ch
    ELSE IF ch.rows[iid] = NoRow
         THEN [ch EXCEPT !.rows = [@ EXCEPT ![iid] = Len(ch.table)],
                         !.table = Append(@, [iid |-> iid, icon |-> NoIcon, bg |-> FALSE])]
         ELSE ch

\* ChannelList.remove (lines 486-497).
Remove(ch, iid) ==
    LET row == ch.rows[iid]
        popped == [ch.rows EXCEPT ![iid] = NoRow]
        tbl == IF HasItem(ch, row) THEN TakeAt(ch.table, row) ELSE ch.table
    IN  IF row = NoRow THEN ch
        ELSE [ch EXCEPT !.table = tbl, !.rows = RowsRebuilt(popped, tbl)]

\* ChannelList.clear (lines 439-442).
Clear(ch) ==
    ClearWatching([ch EXCEPT !.table = <<>>, !.rows = [i \in Iids |-> NoRow]])

\* The client shows a channel: ChannelList.display(channel, add=...).
display ==
    /\ \E iid \in Iids, add \in BOOLEAN : channels' = Display(channels, iid, add)
    /\ UNCHANGED <<corevars, loginvars, mainvars, displayvars, iconvars, settings_panel,
                   drop_icon, progressvars>>

\* The client drops a channel: ChannelList.remove(channel).
remove ==
    /\ \E iid \in Iids : channels' = Remove(channels, iid)
    /\ UNCHANGED <<corevars, loginvars, mainvars, displayvars, iconvars, settings_panel,
                   drop_icon, progressvars>>

\* The client empties the list: ChannelList.clear().
clear ==
    /\ channels' = Clear(channels)
    /\ UNCHANGED <<corevars, loginvars, mainvars, displayvars, iconvars, settings_panel,
                   drop_icon, progressvars>>

\* The client starts watching a channel: ChannelList.set_watching(channel).
set_watching ==
    /\ \E iid \in Iids : channels' = SetWatching(channels, iid)
    /\ UNCHANGED <<corevars, loginvars, mainvars, displayvars, iconvars, settings_panel,
                   drop_icon, progressvars>>

\* The client stops watching: ChannelList.clear_watching().
clear_watching ==
    /\ channels' = ClearWatching(channels)
    /\ UNCHANGED <<corevars, loginvars, mainvars, displayvars, iconvars, settings_panel,
                   drop_icon, progressvars>>

\* ================================================================ campaign progress layer
\* Lines 319-322: the deadline display sets at time t (now.replace(microsecond=0) is t in
\* whole seconds, now.second is t modulo 60).
NextMinuteDeadline(t, subone) ==
    LET seconds_left == MinuteSeconds - (t % MinuteSeconds)
        left == IF subone THEN (IF seconds_left - 1 > 0 THEN seconds_left - 1 ELSE 0)
                ELSE seconds_left
    IN  t + left

\* Lines 295-302 and 323-325: display takes the deadline away and forgets the deadline
\* fired last.
DisplayResets(drop, countdown) == drop = None \/ ~countdown

\* CampaignProgress.display (lines 292-325) at time t, on the progress pr.
ProgressDisplay(pr, drop, countdown, subone, t) ==
    IF DisplayResets(drop, countdown)
    THEN [drop |-> drop, next_minute_deadline |-> None, last_deadline_fired |-> None]
    ELSE [pr EXCEPT !.drop = drop, !.next_minute_deadline = NextMinuteDeadline(t, subone)]

\* Line 336: the deadline is the one fired last.
AlreadyFired(last, deadline) == last = deadline

\* What minute_almost_done returns at time t (lines 327-339).
AlmostDone(pr, t) ==
    /\ pr.next_minute_deadline # None
    /\ ~(pr.next_minute_deadline - t > ALMOST_DONE_SECONDS)
    /\ ~AlreadyFired(pr.last_deadline_fired, pr.next_minute_deadline)

\* The history after minute_almost_done has returned True for deadline d.
FiredFor(f, d) == [ever |-> f.ever \cup {d}, again |-> f.again \/ d \in f.ever]

\* Time passes.
Tick ==
    /\ \E t \in (now + 1)..MaxNow : now' = t
    /\ UNCHANGED <<corevars, loginvars, mainvars, displayvars, iconvars, settings_panel,
                   channelvars, progress, fired>>

\* CampaignProgress.display(drop, countdown=..., subone=...).
progress_display ==
    /\ \E drop \in Drops \cup {None}, countdown \in BOOLEAN, subone \in BOOLEAN :
          progress' = ProgressDisplay(progress, drop, countdown, subone, now)
    /\ UNCHANGED <<corevars, loginvars, mainvars, displayvars, iconvars, settings_panel,
                   channelvars, now, fired>>

\* CampaignProgress.minute_almost_done().
minute_almost_done ==
    /\ IF AlmostDone(progress, now)
       THEN /\ progress' = [progress EXCEPT
                               !.last_deadline_fired = progress.next_minute_deadline]
            /\ fired' = FiredFor(fired, progress.next_minute_deadline)
       ELSE UNCHANGED <<progress, fired>>
    /\ UNCHANGED <<corevars, loginvars, mainvars, displayvars, iconvars, settings_panel,
                   channelvars, now>>

ProgressNext ==
    \/ Tick
    \/ progress_display
    \/ minute_almost_done

ProgressSpec == Init /\ [][ProgressNext]_vars

\* ================================================================ watched drop icon layer
\* Lines 1434-1442 of display_drop: the url of the drop's image (the drops are numbered by
\* it), None when reading it raises.
DropUrl(drop, raises) == IF raises THEN None ELSE drop

\* Line 1451: the url is the one scheduled last.
SameUrl(url, last) == url = last

\* A load task that was not cancelled.
Outstanding(task) == task.st \in {"new", "fetching"}

\* Bug: the task held is not cancelled.
Cancelled_not(tasks, held) == tasks

\* Lines 1454-1455: cancel() on the task held. A task that has ended is left as it is; one
\* that has not is marked, and the step scheduled for it throws CancelledError into it.
\* The task held is the one created last.
Cancelled(tasks, held) ==
    IF held = "live" THEN [tasks EXCEPT ![Len(tasks)].st = "cancelling"] ELSE tasks

\* GUIManager._schedule_watching_drop_icon(url) (lines 1450-1460) on the scheduling state di
\* and the channel list ch: what both are afterwards.
ScheduleWatchingDropIcon(di, ch, url) ==
    IF SameUrl(url, di.last_url) THEN [di |-> di, ch |-> ch]
    ELSE LET cancelled == Cancelled(di.tasks, di.task)
         IN  IF url = None
             THEN [di |-> [last_url |-> None, task |-> "none", tasks |-> cancelled],
                   ch |-> SetWatchingDropIcon(ch, IconNone)]
             ELSE [di |-> [last_url |-> url, task |-> "live",
                           tasks |-> Append(cancelled, [url |-> url, st |-> "new"])],
                   ch |-> ch]

\* The icon _load_and_set_watching_drop_icon hands to set_watching_drop_icon (lines
\* 1463-1467) when get_icon(url) has handed it got: None after an exception.
LoadedIcon(url, got) == IF got = "raised" THEN IconNone ELSE <<url, got>>

\* The scheduling state after load task number t has ended.
Ended(di, t) ==
    [di EXCEPT !.tasks = TakeAt(@, t - 1),
               !.task = IF @ = "live" /\ t = Len(di.tasks) THEN "ended" ELSE @]

\* GUIManager.display_drop(drop) (lines 1430-1443), countdown and subone at their
\* defaults. The model follows MaxLoads load tasks at a time.
display_drop ==
    /\ \E drop \in Drops, raises \in BOOLEAN :
          LET after == ScheduleWatchingDropIcon(drop_icon, channels, DropUrl(drop, raises))
          IN  /\ Len(after.di.tasks) <= MaxLoads
              /\ progress' = ProgressDisplay(progress, drop, TRUE, FALSE, now)
              /\ drop_icon' = after.di
              /\ channels' = after.ch
    /\ UNCHANGED <<corevars, loginvars, mainvars, displayvars, iconvars, settings_panel,
                   now, fired>>

\* GUIManager.clear_drop() (lines 1445-1448).
clear_drop ==
    /\ LET after == ScheduleWatchingDropIcon(drop_icon, channels, None)
       IN  /\ progress' = ProgressDisplay(progress, None, TRUE, FALSE, now)
           /\ drop_icon' = after.di
           /\ channels' = after.ch
    /\ UNCHANGED <<corevars, loginvars, mainvars, displayvars, iconvars, settings_panel,
                   now, fired>>

\* The first step of a load task: get_icon finds the icon in a cache (lines 231-241) and
\* the task sets it and ends, or it suspends in the request (line 245).
load_task_start ==
    /\ \E t \in 1..Len(drop_icon.tasks) :
          /\ drop_icon.tasks[t].st = "new"
          /\ \E cached \in {"none", "image", "blank"} :
                IF cached = "none"
                THEN /\ drop_icon' = [drop_icon EXCEPT !.tasks[t].st = "fetching"]
                     /\ UNCHANGED channels
                ELSE /\ drop_icon' = Ended(drop_icon, t)
                     /\ channels' = SetWatchingDropIcon(channels,
                                        LoadedIcon(drop_icon.tasks[t].url, cached))
    /\ UNCHANGED <<corevars, loginvars, mainvars, displayvars, iconvars, settings_panel,
                   progressvars>>

\* The request of a load task ends: get_icon runs to its end (lines 245-267) and the task
\* sets the icon (line 1467).
load_task_resume ==
    /\ \E t \in 1..Len(drop_icon.tasks) :
          /\ drop_icon.tasks[t].st = "fetching"
          /\ \E outcome \in FetchOutcomes :
                channels' = SetWatchingDropIcon(channels,
                               LoadedIcon(drop_icon.tasks[t].url, GetIconResult(outcome)))
          /\ drop_icon' = Ended(drop_icon, t)
    /\ UNCHANGED <<corevars, loginvars, mainvars, displayvars, iconvars, settings_panel,
                   progressvars>>

\* The step of a cancelled load task: CancelledError is thrown into it, passes the except
\* Exception clauses of lines 248 and 1465, and ends it.
load_task_cancelled ==
    /\ \E t \in 1..Len(drop_icon.tasks) :
          /\ drop_icon.tasks[t].st = "cancelling"
          /\ drop_icon' = Ended(drop_icon, t)
    /\ UNCHANGED <<corevars, loginvars, mainvars, displayvars, iconvars, settings_panel,
                   channels, progressvars>>

ChannelNext ==
    \/ display
    \/ remove
    \/ clear
    \/ set_watching
    \/ clear_watching
    \/ display_drop
    \/ clear_drop
    \/ load_task_start
    \/ load_task_resume
    \/ load_task_cancelled

ChannelSpec == Init /\ [][ChannelNext]_vars

\* ---------------------------------------------------------------- channel list claims
\* The row of the watched channel, NoRow when no channel is watched or it is not in the
\* table.
WatchedRow(ch) == IF ch.watching_iid = None THEN NoRow ELSE ch.rows[ch.watching_iid]

\* C29: after any sequence of display, remove and clear, _rows is a bijection between
\* the iids of the channels in the table and the rows 0..rowCount-1, each iid mapped to
\* the row that holds it; display with add false for a channel not in the table changes
\* nothing.
C29_RowsBijection ==
    /\ [](/\ \A i \in Iids :
               channels.rows[i] # NoRow =>
                  /\ channels.rows[i] \in 0..(Len(channels.table) - 1)
                  /\ channels.table[channels.rows[i] + 1].iid = i
           /\ \A r \in 1..Len(channels.table) : channels.rows[channels.table[r].iid] = r - 1)
    /\ [][\A i \in Iids :
             channels.rows[i] = NoRow => Display(channels, i, FALSE) = channels]_vars

\* C29 witness: every channel is in the table and the rows are not in the order of the
\* iids: the last channel sits in row 0 and the first in the last row.
C29_Witness ==
    /\ Len(channels.table) = NChannels
    /\ channels.table[1].iid = NChannels /\ channels.rows[NChannels] = 0
    /\ channels.table[NChannels].iid = 1 /\ channels.rows[1] = NChannels - 1

\* The icon of the watched channel's row, NoIcon when there is no such row.
WatchedIcon(ch) ==
    IF HasItem(ch, WatchedRow(ch)) THEN ch.table[WatchedRow(ch) + 1].icon ELSE NoIcon

\* C27: at most one load task for the watched drop's icon is outstanding at any time and
\* a stale load never overwrites a newer choice: every icon put on a row is an icon of
\* the url scheduled last, no row has an icon when the last call passed None, and once
\* no load is outstanding the watched row's icon is empty or an icon of the url
\* scheduled last. (While the load of the url scheduled last is outstanding the row still
\* shows the icon set before.)
C27_NoStaleIcon ==
    /\ [](/\ Cardinality({t \in 1..Len(drop_icon.tasks) :
                             Outstanding(drop_icon.tasks[t])}) <= 1
          /\ drop_icon.last_url = None =>
                \A r \in 1..Len(channels.table) : channels.table[r].icon = NoIcon
          /\ (\A t \in 1..Len(drop_icon.tasks) : ~Outstanding(drop_icon.tasks[t])) =>
                \/ WatchedIcon(channels) = NoIcon
                \/ WatchedIcon(channels)[1] = drop_icon.last_url)
    /\ [][\A r \in 1..Len(channels'.table) :
             LET row == channels'.table[r]
             IN  row.icon # NoIcon =>
                    \/ row.icon[1] = drop_icon'.last_url
                    \/ \E q \in 1..Len(channels.table) :
                          /\ channels.table[q].iid = row.iid
                          /\ channels.table[q].icon = row.icon]_vars

\* C27 witness: the load of url 1 was cancelled by the scheduling of url 2 and has not
\* ended yet, the load of url 2 has ended and the watched row carries its icon.
C27_Witness ==
    /\ drop_icon.last_url = 2 /\ drop_icon.task = "ended"
    /\ drop_icon.tasks = <<[url |-> 1, st |-> "cancelling"]>>
    /\ WatchedIcon(channels) = <<2, "image">>

\* C28: whenever a drop is displayed, the load of its icon has ended and a channel in the
\* table is watched, the watched channel's row carries an icon of that drop.
C28_WatchedRowCarriesIcon ==
    (/\ progress.drop # None
     /\ drop_icon.last_url = progress.drop
     /\ drop_icon.task = "ended"
     /\ HasItem(channels, WatchedRow(channels)))
        => (WatchedIcon(channels) # NoIcon /\ WatchedIcon(channels)[1] = progress.drop)

\* ---------------------------------------------------------------- campaign progress claims
\* C30: minute_almost_done fires once per deadline: it never returns True for a deadline
\* it has returned True for before, whatever displays come in between.
C30_FiresOncePerDeadline == ~fired.again

====
